---- MODULE Spec2Model ----
(***************************************************************************)
(* Model of the CDR query builder (src/Python/cdrdb2.py, class Query) and  *)
(* of CDR documents (src/Python/cdrapi/docs.py): the version resolution,   *)
(* the cached properties, the locks and the modification data of class     *)
(* Doc, the sql-query and dedup-ids functions of class Resolver, the list  *)
(* of the Docs being filtered, and the caches of classes Term and Filter.  *)
(*                                                                         *)
(* A Query object is a record of its attributes; the objects live in the   *)
(* heap qs.  A rendered statement is the sequence of the lines __str__     *)
(* appends to its local list `query`; a line is the keyword _align() pads, *)
(* the tokens that follow it, the padding and the indentation.             *)
(***************************************************************************)
EXTENDS Integers, Sequences, FiniteSets, TLC

VARIABLES qs,       \* heap of Query objects: QIds -> object record
          lastOp,   \* the last call made on a Query and how it ended
          nops,     \* number of builder calls made so far
          doc,      \* a Doc object (its options and cached attributes)
          versions, \* rows of the doc_version table for the document
          lastRead, \* the last read of Doc.version and how it ended
          checkout, \* rows of the checkout table (the locks of documents)
          grants,   \* the actions each user is allowed to perform
          lastCall, \* the last call of Doc.lock or Doc.unlock and its end
          lastSql,  \* the last call of Resolver.run_sql_query and its end
          lastDedup, \* the last call of Resolver.dedup_ids and its result
          clock,    \* the clock, in days
          use_cache,     \* Term.use_cache: the enable counter of the cache
          terms,         \* Term.terms: the cache of Term objects
          cache_started, \* Term.cache_started
          termLock, \* the thread which holds Term.lock, if any
          calls,    \* for each thread, its calls of Term.get_term in progress
          lastTerm, \* for each thread, its last call of Term.get_term
          lastSet,  \* the last call of Term.set_cache and its end
          termDocs, \* the Term documents: their names and their parents
          wall,     \* time.time(), in seconds
          filters,  \* Filter.filters: the cache of Filter objects
          lastFilter, \* for each thread, its last call of Filter.get_filter
          evictions, \* the number of Filters deleted from the cache so far
          docs,     \* Resolver.local.docs: for each thread, the Docs being
                    \* filtered
          filtering, \* for each thread, its calls of Doc.filter which have
                    \* not ended, the outermost first
          lastResolve, \* for each thread, its last resolver callback
          lastEnd,  \* for each thread, the last of its calls of Doc.filter
                    \* which has ended
          audit_trail, \* the rows of the table audit_trail
          modInfo,  \* the attributes _modifier and _modified of the Doc
          lastProp  \* the last read of modifier or modified

vars == <<qs, lastOp, nops, doc, versions, lastRead, checkout, grants,
          lastCall, lastSql, lastDedup, clock, use_cache, terms, cache_started,
          termLock, calls, lastTerm, lastSet, termDocs, wall, filters,
          lastFilter, evictions, docs, filtering, lastResolve, lastEnd,
          audit_trail, modInfo, lastProp>>
qvars == <<qs, lastOp, nops>>
dvars == <<doc, versions, lastRead>>
lvars == <<checkout, grants, lastCall>>
rvars == <<lastSql>>
tvars == <<clock, use_cache, terms, cache_started, termLock, calls, lastTerm,
           lastSet, termDocs>>
fvars == <<wall, filters, lastFilter, evictions>>
svars == <<docs, filtering, lastResolve, lastEnd>>
avars == <<audit_trail, modInfo, lastProp>>
cvars == <<lastDedup, tvars, fvars, svars, avars>>

----------------------------------------------------------------------------
(* Bounds *)

\* builder calls (join, where, ..., into) in one behaviour
MaxOps == 3

\* tokens before and after the "~~" of an argument of dedup-ids
MaxPrimary == 2
MaxSecondary == 3

\* days the clock counts, and nested calls of set_cache(True)
MaxNow == 2
MaxEnabled == 2

\* half shelf lives the clock of the filters counts
MaxTicks == 4

\* calls of Doc.filter a thread has running, one within the other
MaxNest == 2

\* rows of the audit trail
MaxAudit == 3

----------------------------------------------------------------------------
(* Values *)

\* The Query objects of a behaviour.  An object refers only to objects
\* later in this order (no object contains itself).
QIds == {"q1", "q2", "q3"}
QRank(q) == CASE q = "q1" -> 1 [] q = "q2" -> 2 [] OTHER -> 3
Refs(q) == {r \in QIds : QRank(r) > QRank(q)}

NoName == ""

\* right-hand value of a Condition: a single value, a list or a Query
NoVal == [q |-> NoName, t |-> "none", v |-> 0, vs |-> <<>>]
Scalar(v) == [q |-> NoName, t |-> "scalar", v |-> v, vs |-> <<>>]
List(vs) == [q |-> NoName, t |-> "list", v |-> 0, vs |-> vs]
Nested(q) == [q |-> q, t |-> "query", v |-> 0, vs |-> <<>>]

\* a condition: SQL text, Query.Condition, Query.Or, or a tuple inside an Or
Lit(s) == [k |-> "lit", col |-> s, test |-> "", val |-> NoVal, cs |-> <<>>]
Condition(col, val, test) ==
    [k |-> "cond", col |-> col, test |-> test, val |-> val, cs |-> <<>>]
Or(cs) == [k |-> "or", col |-> "", test |-> "", val |-> NoVal, cs |-> cs]
Tuple(cs) == [k |-> "seq", col |-> "", test |-> "", val |-> NoVal, cs |-> cs]

\* a table: a name or a Query
Named(n) == [q |-> NoName, k |-> "name", n |-> n]
Virtual(q) == [q |-> q, k |-> "query", n |-> ""]

Join(table, outer, conditions) ==
    [table |-> table, outer |-> outer, conditions |-> conditions]

\* Query.__init__
NewQuery(table, columns) ==
    [table |-> table, outer |-> FALSE, columns |-> columns, joins |-> <<>>, where |-> <<>>,
     group |-> <<>>, having |-> <<>>, order |-> <<>>, parms |-> <<>>,
     unions |-> <<>>, alias |-> NoName, into |-> NoName,
     hasLimit |-> FALSE, limit |-> 0, unique |-> FALSE,
     cached |-> FALSE, str |-> <<>>]

----------------------------------------------------------------------------
(* Text helpers *)

\* str.upper() on the operator and direction words a caller passes
Upper(s) ==
    CASE s \in {"in", "In", "IN"} -> "IN"
      [] s \in {"not in", "Not In", "NOT IN"} -> "NOT IN"
      [] s \in {"asc", "Asc", "ASC"} -> "ASC"
      [] s \in {"desc", "Desc", "DESC"} -> "DESC"
      [] s = "up" -> "UP"
      [] OTHER -> s

\* len() of a keyword
KwLen(kw) ==
    CASE kw = "SELECT" -> 6 [] kw = "INTO" -> 4 [] kw = "FROM" -> 4
      [] kw = "JOIN" -> 4 [] kw = "LEFT OUTER JOIN" -> 15 [] kw = "ON" -> 2
      [] kw = "WHERE" -> 5 [] kw = "AND" -> 3 [] kw = "OR" -> 2
      [] kw = "GROUP BY" -> 8 [] kw = "HAVING" -> 6 [] kw = "UNION" -> 5
      [] kw = "ORDER BY" -> 8 [] OTHER -> 0

\* len("%d" % n) for the limits in use
DecLen(n) == IF n < 0 THEN (IF n > -10 THEN 2 ELSE 3)
             ELSE (IF n < 10 THEN 1 ELSE 2)

\* len(select): "SELECT" [" DISTINCT"] [" TOP %d"]
SelectLen(o) ==
    6 + (IF o.unique THEN 9 ELSE 0)
      + (IF o.hasLimit THEN 5 + DecLen(o.limit) ELSE 0)

Max(a, b) == IF a > b THEN a ELSE b

\* self._indent as __str__ calculates it
Widen(indent, used, kw) == IF used THEN Max(indent, KwLen(kw)) ELSE indent

Indent(o) ==
    Widen(Widen(Widen(SelectLen(o), o.order # <<>>, "ORDER BY"),
                o.outer, "LEFT OUTER JOIN"),
          o.group # <<>>, "GROUP BY")

\* ", ".join(items)
RECURSIVE CommaJoin(_)
CommaJoin(items) ==
    IF Len(items) = 0 THEN <<>>
    ELSE IF Len(items) = 1 THEN <<items[1]>>
    ELSE <<items[1], ",">> \o CommaJoin(Tail(items))

\* ", ".join(self._order): each column is " ".join(words)
RECURSIVE CommaJoinWords(_)
CommaJoinWords(columns) ==
    IF Len(columns) = 0 THEN <<>>
    ELSE IF Len(columns) = 1 THEN columns[1]
    ELSE columns[1] \o <<",">> \o CommaJoinWords(Tail(columns))

\* ["%s"] * n
RECURSIVE Placeholders(_)
Placeholders(n) == IF n = 0 THEN <<>> ELSE <<"%s">> \o Placeholders(n - 1)

\* Query._align: one line of the statement, written by object q.  The
\* keyword is cut on the left when it is longer than the indent.
Line(q, indent, kwlen, kw, rest) ==
    [kw |-> kw, rest |-> rest, own |-> q, lead |-> 0,
     pad |-> Max(indent - kwlen, 0), cut |-> Max(kwlen - indent, 0)]

Align(q, o, kwlen, kw, rest) == Line(q, Indent(o), kwlen, kw, rest)

IndentWidth == 4

\* Query.indent applied to "<block>) <tail>": every line moves right and
\* the tail follows the last line of the block
IndentBlock(lines, tail) ==
    [i \in 1..Len(lines) |->
        [lines[i] EXCEPT !.lead = @ + IndentWidth,
                         !.rest = IF i = Len(lines) THEN @ \o tail ELSE @]]

----------------------------------------------------------------------------
(* Rendering: Query.__str__ and its helpers.  A rendering context c holds  *)
(* the heap (self._parms and the caches of nested queries change while a   *)
(* statement is assembled), the lines appended so far to the local list    *)
(* `query`, and the exception raised, if any ("" for none): once an        *)
(* exception is raised nothing more is appended.                           *)

Ctx(h, out) == [h |-> h, out |-> out, err |-> ""]
Raise(c, msg) == [c EXCEPT !.err = msg]

\* query.append(self._align(keyword, rest))
Emit(c, q, kw, rest) ==
    [c EXCEPT !.out = Append(@, Align(q, c.h[q], KwLen(kw), kw, rest))]

\* self._parms += values
AddParms(c, q, values) == [c EXCEPT !.h[q].parms = @ \o values]

\* the operators which take a sequence of values
InTests == {"IN", "NOT IN"}

RECURSIVE RenderQ(_, _)
RECURSIVE SerializeCondition(_, _, _, _, _, _)
RECURSIVE SerializeOrSet(_, _, _, _, _, _)
RECURSIVE OrLoop(_, _, _, _, _, _)
RECURSIVE TupleLoop(_, _, _, _, _, _, _)
RECURSIVE SerializeConditions(_, _, _, _, _)
RECURSIVE SerializeJoins(_, _, _)
RECURSIVE SerializeUnions(_, _, _)

\* Query._serialize_condition: test = "%s %s%s" % (column, prefix, test)
TestOf(condition, prefix) == <<condition.col>> \o prefix \o <<condition.test>>

\* nested._alias and (" %s" % nested._alias) or ""
AliasWord(o) == IF o.alias # NoName THEN <<o.alias>> ELSE <<>>

\* Query._serialize_condition, the branch for a Condition whose value is a
\* nested Query n, given the result r of str(n)
NestedCondition(c, q, keyword, test, tail, n, r) ==
    IF r.err # "" THEN [c EXCEPT !.h = r.h, !.err = r.err]
    ELSE AddParms(
           [Emit([c EXCEPT !.h = r.h], q, keyword, test \o <<"(">>)
               EXCEPT !.out = @ \o IndentBlock(r.out, tail)],
           q, r.h[n].parms)

SerializeNested(c, q, keyword, condition, prefix, suffix) ==
    NestedCondition(c, q, keyword, TestOf(condition, prefix),
                    <<")">> \o AliasWord(c.h[condition.val.q]) \o suffix,
                    condition.val.q, RenderQ(c.h, condition.val.q))

\* the value of a Condition as a list: a value which is no list or tuple
\* becomes a list of one
AsList(val) == IF val.t = "list" THEN val.vs ELSE <<val.v>>

\* a faulty variant of SerializeIn: an empty list of values is accepted
SerializeIn_NoCheck(c, q, keyword, condition, prefix, suffix) ==
    AddParms(
      Emit(c, q, keyword,
           TestOf(condition, prefix) \o <<"(">>
           \o CommaJoin(Placeholders(Len(AsList(condition.val))))
           \o <<")">> \o suffix),
      q, AsList(condition.val))

\* Query._serialize_condition, the branch for IN and NOT IN
SerializeIn(c, q, keyword, condition, prefix, suffix) ==
    IF AsList(condition.val) = <<>> THEN Raise(c, "test with no values")
    ELSE AddParms(
           Emit(c, q, keyword,
                TestOf(condition, prefix) \o <<"(">>
                \o CommaJoin(Placeholders(Len(AsList(condition.val))))
                \o <<")">> \o suffix),
           q, AsList(condition.val))

\* Query._serialize_condition, the branch for a single value
SerializeSingle(c, q, keyword, condition, prefix, suffix) ==
    IF condition.val.t = "list"
    THEN Raise(c, "Unexpected sequence of values")
    ELSE AddParms(Emit(c, q, keyword,
                       TestOf(condition, prefix) \o <<"%s">> \o suffix),
                  q, <<condition.val.v>>)

\* Query._serialize_condition
SerializeCondition(c, q, keyword, condition, prefix, suffix) ==
    IF c.err # "" THEN c
    ELSE IF condition.k = "or"
    THEN SerializeOrSet(c, q, keyword, condition, prefix, suffix)
    ELSE IF condition.k # "cond"
    THEN Emit(c, q, keyword, prefix \o <<condition.col>> \o suffix)
    ELSE IF condition.val.t = "query"
    THEN SerializeNested(c, q, keyword, condition, prefix, suffix)
    ELSE IF Upper(condition.test) \in InTests
    THEN SerializeIn(c, q, keyword, condition, prefix, suffix)
    ELSE SerializeSingle(c, q, keyword, condition, prefix, suffix)

\* Query._serialize_or_set: close_paren = suffix + ")" for the last
\* condition of the group
CloseParen(last, suffix, close) == IF last THEN suffix \o <<")">> ELSE close

\* Query._serialize_or_set, the inner loop over a tuple of conditions which
\* are ANDed together.  st is the loop state: keyword, open_paren,
\* close_paren.
TupleLoop(c, q, conditions, j, st, last_or, suffix) ==
    IF j > Len(conditions) THEN [c |-> c, st |-> st]
    ELSE TupleLoop(
             SerializeCondition(
                 c, q, st.kw, conditions[j], st.open,
                 CloseParen(last_or /\ j = Len(conditions), suffix, st.close)),
             q, conditions, j + 1,
             [kw |-> "AND",
              close |-> CloseParen(last_or /\ j = Len(conditions), suffix,
                                   st.close),
              open |-> <<>>],
             last_or, suffix)

\* Query._serialize_or_set, one member of the Or: a tuple or a condition
OrMember(c, q, condition, st, last_or, suffix) ==
    IF condition.k = "seq"
    THEN TupleLoop(c, q, condition.cs, 1, st, last_or, suffix)
    ELSE [c |-> SerializeCondition(c, q, st.kw, condition, st.open,
                                   CloseParen(last_or, suffix, st.close)),
          st |-> [kw |-> st.kw,
                  close |-> CloseParen(last_or, suffix, st.close),
                  open |-> st.open]]

\* Query._serialize_or_set, the end of the loop body: keyword = "OR",
\* open_paren = ""
OrStep(r, q, conditions, i, suffix) ==
    OrLoop(r.c, q, conditions, i + 1,
           [kw |-> "OR", close |-> r.st.close, open |-> <<>>], suffix)

\* Query._serialize_or_set, the loop over the members of the Or
OrLoop(c, q, conditions, i, st, suffix) ==
    IF i > Len(conditions) THEN c
    ELSE OrStep(OrMember(c, q, conditions[i], st, i = Len(conditions),
                         suffix),
                q, conditions, i, suffix)

\* Query._serialize_or_set
SerializeOrSet(c, q, keyword, or_set, prefix, suffix) ==
    OrLoop(c, q, or_set.cs, 1,
           [kw |-> keyword, close |-> <<>>, open |-> <<"(">> \o prefix],
           suffix)

\* for condition in conditions: self._serialize_condition(...);
\* keyword = "AND"
SerializeConditions(c, q, keyword, conditions, i) ==
    IF i > Len(conditions) THEN c
    ELSE SerializeConditions(
             SerializeCondition(c, q, keyword, conditions[i], <<>>, <<>>),
             q, "AND", conditions, i + 1)

\* a Query t used as a table, given the result r of str(t): placeholders
\* are refused, then the statement goes indented between parentheses,
\* followed by the alias
NestedTable(c, q, keyword, t, r, message) ==
    IF r.err # "" THEN [c EXCEPT !.h = r.h, !.err = r.err]
    ELSE IF r.h[t].parms # <<>> THEN Raise([c EXCEPT !.h = r.h], message)
    ELSE [Emit([c EXCEPT !.h = r.h], q, keyword, <<"(">>)
             EXCEPT !.out = @ \o IndentBlock(r.out, <<")", r.h[t].alias>>)]

\* Query._serialize_join, the table of the join
JoinTable(c, q, keyword, table) ==
    IF table.k # "query" THEN Emit(c, q, keyword, <<table.n>>)
    ELSE IF c.h[table.q].alias = NoName
    THEN Raise(c, "resultset expression without alias")
    ELSE NestedTable(c, q, keyword, table.q, RenderQ(c.h, table.q),
                     "Placeholders not allowed in joined resultset expression")

\* Query._serialize_join
SerializeJoin(c, q, join) ==
    IF c.err # "" THEN c
    ELSE SerializeConditions(
             JoinTable(c, q, IF join.outer THEN "LEFT OUTER JOIN" ELSE "JOIN",
                       join.table),
             q, "ON", join.conditions, 1)

\* for join in self._joins: self._serialize_join(query, join)
SerializeJoins(c, q, i) ==
    IF i > Len(c.h[q].joins) THEN c
    ELSE SerializeJoins(SerializeJoin(c, q, c.h[q].joins[i]), q, i + 1)

\* query.append(str(union)), given the result r of str(union)
UnionBlock(c, r) ==
    IF r.err # "" THEN [c EXCEPT !.h = r.h, !.err = r.err]
    ELSE [c EXCEPT !.h = r.h, !.out = @ \o r.out]

\* for union in self._unions: the UNION line, then str(union)
SerializeUnions(c, q, i) ==
    IF c.err # "" \/ i > Len(c.h[q].unions) THEN c
    ELSE SerializeUnions(
             UnionBlock(Emit(c, q, "UNION", <<>>),
                        RenderQ(c.h, c.h[q].unions[i])),
             q, i + 1)

\* Query.__str__, the SELECT line
SelectLine(q, o) ==
    Align(q, o, SelectLen(o), "SELECT",
          (IF o.unique THEN <<"DISTINCT">> ELSE <<>>)
          \o (IF o.hasLimit THEN <<"TOP", ToString(o.limit)>> ELSE <<>>)
          \o CommaJoin(o.columns))

\* Query.__str__: self._parms = [] and the SELECT line
SelectClause(h, q) ==
    Ctx([h EXCEPT ![q].parms = <<>>], <<SelectLine(q, h[q])>>)

\* Query.__str__, the INTO clause
IntoClause(c, q) ==
    IF c.h[q].into # NoName THEN Emit(c, q, "INTO", <<c.h[q].into>>) ELSE c

\* a faulty variant of FromClause: a virtual table is taken without an alias
FromClause_NoAlias(c, q) ==
    IF c.err # "" THEN c
    ELSE IF c.h[q].table.k # "query"
    THEN Emit(c, q, "FROM", <<c.h[q].table.n>>)
    ELSE NestedTable(c, q, "FROM", c.h[q].table.q,
                     RenderQ(c.h, c.h[q].table.q),
                     "Placeholders not allowed in virtual table")

\* Query.__str__, the FROM clause
FromClause(c, q) ==
    IF c.err # "" THEN c
    ELSE IF c.h[q].table.k # "query"
    THEN Emit(c, q, "FROM", <<c.h[q].table.n>>)
    ELSE IF c.h[c.h[q].table.q].alias = NoName
    THEN Raise(c, "Virtual tables must have an alias")
    ELSE NestedTable(c, q, "FROM", c.h[q].table.q,
                     RenderQ(c.h, c.h[q].table.q),
                     "Placeholders not allowed in virtual table")

\* Query.__str__, the GROUP BY clause
GroupClause(c, q) ==
    IF c.err = "" /\ c.h[q].group # <<>>
    THEN Emit(c, q, "GROUP BY", CommaJoin(c.h[q].group)) ELSE c

\* Query.__str__, the ORDER BY clause
OrderClause(c, q) ==
    IF c.err = "" /\ c.h[q].order # <<>>
    THEN Emit(c, q, "ORDER BY", CommaJoinWords(c.h[q].order)) ELSE c

\* a faulty variant of GroupToOrder: ORDER BY is written before the unions
GroupToOrder_OrderFirst(c, q) ==
    SerializeUnions(
        OrderClause(
            SerializeConditions(GroupClause(c, q), q, "HAVING",
                                c.h[q].having, 1),
            q),
        q, 1)

\* Query.__str__, the clauses after WHERE: GROUP BY, HAVING, the unions and
\* ORDER BY
GroupToOrder(c, q) ==
    OrderClause(
        SerializeUnions(
            SerializeConditions(GroupClause(c, q), q, "HAVING",
                                c.h[q].having, 1),
            q, 1),
        q)

\* Query.__str__, the end: self._str is set unless an exception was raised
CacheStr(c, q) ==
    IF c.err = ""
    THEN [h |-> [c.h EXCEPT ![q].str = c.out, ![q].cached = TRUE],
          out |-> c.out, err |-> ""]
    ELSE [h |-> c.h, out |-> <<>>, err |-> c.err]

\* Query.__str__: the result of str(q) in heap h: the heap afterwards, the
\* lines of the statement and the exception raised ("" for none)
RenderQ(h, q) ==
    IF h[q].cached THEN [h |-> h, out |-> h[q].str, err |-> ""]
    ELSE CacheStr(
             GroupToOrder(
                 SerializeConditions(
                     SerializeJoins(
                         FromClause(IntoClause(SelectClause(h, q), q), q),
                         q, 1),
                     q, "WHERE", h[q].where, 1),
                 q),
             q)

----------------------------------------------------------------------------
(* Builder calls.  Each is one method of Query; a call which raises leaves *)
(* the exception in lastOp.err.                                            *)

\* what lastOp records: the method called, its object, the exception it
\* raised ("" for none), whether it sent a statement to the database, and
\* the last builder method called before or by it
Called(op, q, err) ==
    [q |-> q, err |-> err, op |-> op, sent |-> FALSE, mut |-> op]

\* self._str = None
Invalidate(o) == [o EXCEPT !.cached = FALSE, !.str = <<>>]

\* Query._add_sequence_or_value
AddSequenceOrValue(to_be_added, collection) ==
    IF to_be_added.k = "seq" THEN collection \o to_be_added.cs
    ELSE Append(collection, to_be_added)

\* Join.__init__: the conditions, with sequences among them flattened
RECURSIVE JoinConditions(_, _)
JoinConditions(conditions, collection) ==
    IF conditions = <<>> THEN collection
    ELSE JoinConditions(Tail(conditions),
                        AddSequenceOrValue(Head(conditions), collection))

\* Query.join
join(q, table, conditions) ==
    /\ nops < MaxOps
    /\ qs' = [qs EXCEPT ![q] = Invalidate(
                 [@ EXCEPT !.joins =
                     Append(@, Join(table, FALSE,
                                    JoinConditions(conditions, <<>>)))])]
    /\ lastOp' = Called("join", q, "")
    /\ nops' = nops + 1
    /\ UNCHANGED <<dvars, lvars, rvars, cvars>>

\* Query.outer
outer(q, table, conditions) ==
    /\ nops < MaxOps
    /\ qs' = [qs EXCEPT ![q] = Invalidate(
                 [@ EXCEPT !.joins =
                     Append(@, Join(table, TRUE,
                                    JoinConditions(conditions, <<>>))),
                           !.outer = TRUE])]
    /\ lastOp' = Called("outer", q, "")
    /\ nops' = nops + 1
    /\ UNCHANGED <<dvars, lvars, rvars, cvars>>

\* Query.where
where(q, condition) ==
    /\ nops < MaxOps
    /\ qs' = [qs EXCEPT ![q] =
                 Invalidate([@ EXCEPT !.where = Append(@, condition)])]
    /\ lastOp' = Called("where", q, "")
    /\ nops' = nops + 1
    /\ UNCHANGED <<dvars, lvars, rvars, cvars>>

\* Query.group
group(q, columns) ==
    /\ nops < MaxOps
    /\ qs' = [qs EXCEPT ![q] =
                 Invalidate([@ EXCEPT !.group = @ \o columns])]
    /\ lastOp' = Called("group", q, "")
    /\ nops' = nops + 1
    /\ UNCHANGED <<dvars, lvars, rvars, cvars>>

\* Query.having
having(q, condition) ==
    /\ nops < MaxOps
    /\ qs' = [qs EXCEPT ![q] =
                 Invalidate([@ EXCEPT !.having = Append(@, condition)])]
    /\ lastOp' = Called("having", q, "")
    /\ nops' = nops + 1
    /\ UNCHANGED <<dvars, lvars, rvars, cvars>>

\* Query.union
union(q, query) ==
    /\ nops < MaxOps
    /\ qs' = [qs EXCEPT ![q] =
                 Invalidate([@ EXCEPT !.unions = Append(@, query)])]
    /\ lastOp' = Called("union", q, "")
    /\ nops' = nops + 1
    /\ UNCHANGED <<dvars, lvars, rvars, cvars>>

\* a faulty variant of OrderColumnOk: the direction word is not looked at
OrderColumnOk_NoDirection(words) == ~(Len(words) > 2)

\* Query.order, the test of one column: its words after split()
OrderColumnOk(words) ==
    /\ ~(Len(words) > 2)
    /\ ~(Len(words) = 2 /\ Upper(words[2]) \notin {"ASC", "DESC"})

\* Query.order, the loop over the columns: each column is appended to
\* self._order before the next one is looked at
RECURSIVE OrderLoop(_, _)
OrderLoop(columns, o) ==
    IF columns = <<>> THEN [o |-> Invalidate(o), err |-> ""]
    ELSE IF ~OrderColumnOk(Head(columns))
    THEN [o |-> o, err |-> "invalid order column"]
    ELSE OrderLoop(Tail(columns),
                   [o EXCEPT !.order = Append(@, Head(columns))])

\* Query.order; a column is given as the words split() finds in it
order(q, columns) ==
    /\ nops < MaxOps
    /\ LET r == OrderLoop(columns, qs[q])
       IN /\ qs' = [qs EXCEPT ![q] = r.o]
          /\ lastOp' = Called("order", q, r.err)
    /\ nops' = nops + 1
    /\ UNCHANGED <<dvars, lvars, rvars, cvars>>

\* a Python value passed as limit: its type and, for an int, its value
PyInt(n) == [t |-> "int", v |-> n]
PyStr(n) == [t |-> "str", v |-> n]
PyFloat(n) == [t |-> "float", v |-> n]

\* Query.limit, the type test
LimitOk(value) == ~(value.t # "int")

\* Query.limit
limit(q, value) ==
    /\ nops < MaxOps
    /\ IF LimitOk(value)
       THEN /\ qs' = [qs EXCEPT ![q] =
                         Invalidate([@ EXCEPT !.hasLimit = TRUE,
                                              !.limit = value.v])]
            /\ lastOp' = Called("limit", q, "")
       ELSE /\ qs' = qs
            /\ lastOp' = Called("limit", q, "limit must be integer")
    /\ nops' = nops + 1
    /\ UNCHANGED <<dvars, lvars, rvars, cvars>>

\* Query.unique
unique(q) ==
    /\ nops < MaxOps
    /\ qs' = [qs EXCEPT ![q] = Invalidate([@ EXCEPT !.unique = TRUE])]
    /\ lastOp' = Called("unique", q, "")
    /\ nops' = nops + 1
    /\ UNCHANGED <<dvars, lvars, rvars, cvars>>

\* Query.alias
alias(q, name) ==
    /\ nops < MaxOps
    /\ qs' = [qs EXCEPT ![q] = Invalidate([@ EXCEPT !.alias = name])]
    /\ lastOp' = Called("alias", q, "")
    /\ nops' = nops + 1
    /\ UNCHANGED <<dvars, lvars, rvars, cvars>>

\* Query.into
into(q, name) ==
    /\ nops < MaxOps
    /\ qs' = [qs EXCEPT ![q] = Invalidate([@ EXCEPT !.into = name])]
    /\ lastOp' = Called("into", q, "")
    /\ nops' = nops + 1
    /\ UNCHANGED <<dvars, lvars, rvars, cvars>>

----------------------------------------------------------------------------
(* Calls which render the statement *)

Rendered(op, q, err, sent) ==
    [q |-> q, err |-> err, op |-> op, sent |-> sent, mut |-> lastOp.mut]

\* the effect of a call which rendered the statement with result r
Render(op, q, r, send) ==
    /\ qs' = r.h
    /\ lastOp' = Rendered(op, q, r.err, send /\ r.err = "")
    /\ UNCHANGED <<nops, dvars, lvars, rvars, cvars>>

\* str(query): Query.__str__
str(q) == Render("str", q, RenderQ(qs, q), FALSE)

\* Query.parms: the statement is rendered unless self._str is set
parms(q) ==
    Render("parms", q,
           IF ~qs[q].cached THEN RenderQ(qs, q)
           ELSE [h |-> qs, out |-> qs[q].str, err |-> ""],
           FALSE)

\* Query.execute with a cursor supplied: the statement is rendered, then
\* cursor.execute(sql, tuple(self._parms)) sends it
execute(q) == Render("execute", q, RenderQ(qs, q), TRUE)

----------------------------------------------------------------------------
(* Documents and their versions (class Doc).  A string the caller passes   *)
(* as version specifier is the sequence of its characters.                 *)

\* a Python value which may be None
PyNone == [v |-> 0, isNull |-> TRUE]
PyVal(n) == [v |-> n, isNull |-> FALSE]
\* `not value` for an integer or None
Falsy(value) == value.isNull \/ value.v = 0

\* str.lower(), character by character
LowerChar(ch) ==
    CASE ch = "L" -> "l" [] ch = "A" -> "a" [] ch = "S" -> "s"
      [] ch = "T" -> "t" [] ch = "P" -> "p" [] ch = "V" -> "v"
      [] ch = "C" -> "c" [] ch = "B" -> "b" [] ch = "X" -> "x"
      [] ch = "D" -> "d" [] ch = "E" -> "e" [] ch = "I" -> "i"
      [] ch = "N" -> "n" [] ch = "R" -> "r" [] ch = "U" -> "u"
      [] OTHER -> ch
Lower(s) == [i \in 1..Len(s) |-> LowerChar(s[i])]

\* str.startswith
StartsWith(s, prefix) ==
    Len(s) >= Len(prefix) /\ SubSeq(s, 1, Len(prefix)) = prefix

Digits == {"0", "1", "2", "3", "4", "5", "6", "7", "8", "9"}
DigitVal(ch) ==
    CASE ch = "0" -> 0 [] ch = "1" -> 1 [] ch = "2" -> 2 [] ch = "3" -> 3
      [] ch = "4" -> 4 [] ch = "5" -> 5 [] ch = "6" -> 6 [] ch = "7" -> 7
      [] ch = "8" -> 8 [] OTHER -> 9

\* int(s): whether it accepts s (an optional sign, then digits), and its value
RECURSIVE NatVal(_)
NatVal(s) == IF s = <<>> THEN 0
             ELSE 10 * NatVal(SubSeq(s, 1, Len(s) - 1)) + DigitVal(s[Len(s)])
AllDigits(s) == s # <<>> /\ \A i \in 1..Len(s) : s[i] \in Digits
IntOk(s) == IF s # <<>> /\ s[1] \in {"-", "+"} THEN AllDigits(Tail(s))
            ELSE AllDigits(s)
IntVal(s) == IF s[1] = "-" THEN 0 - NatVal(Tail(s))
             ELSE IF s[1] = "+" THEN NatVal(Tail(s)) ELSE NatVal(s)

\* the version option of a Doc: absent, an integer or a string
NoVersion == [t |-> "none", s |-> <<>>, n |-> 0]
IntVersion(n) == [t |-> "int", s |-> <<>>, n |-> n]
StrVersion(s) == [t |-> "str", s |-> s, n |-> 0]

\* a serialized document is the sequence of its characters; None and the
\* empty string, which `if self._xml` does not tell apart, are NoText
NoText == <<>>
\* a parsed tree is known by the tag of its root; None is NoTree
NoTree == ""

\* Doc.__init__ with the options id, version and xml: nothing is resolved
\* yet.  versionRuns and rootRuns count the times the version was resolved
\* and the tree was parsed since the last assignment to xml (or since the
\* Doc was made); assigned tells that xml was assigned to.
NewDocXml(id, opt, xml) ==
    [id |-> id,
     opt |-> opt,
     xml |-> NoText,
     hasVersion |-> FALSE,
     version |-> PyNone,
     hasLastVersion |-> FALSE,
     lastVersion |-> PyNone,
     optXml |-> xml,
     hasXml |-> FALSE,
     hasRoot |-> FALSE,
     root |-> NoTree,
     assigned |-> FALSE,
     versionRuns |-> 0,
     rootRuns |-> 0]

\* Doc.__init__ without the option xml
NewDoc(id, opt) == NewDocXml(id, opt, NoText)

NOT_VERSIONED == "document not versioned"
NO_PUBLISHABLE_VERSIONS == "no publishable version found"

\* SELECT MAX(num) over rows: NULL when there is none
MaxNum(rows) ==
    IF rows = {} THEN PyNone
    ELSE PyVal(CHOOSE n \in {r.num : r \in rows} :
                   \A r \in rows : r.num <= n)

\* a faulty variant of LastVersion: the versions of every document are
\* looked at
LastVersion_AnyDocument(d, rows) ==
    IF d.hasLastVersion THEN [val |-> d.lastVersion, d |-> d]
    ELSE [val |-> IF d.id = 0 THEN PyNone ELSE MaxNum(rows),
          d |-> [d EXCEPT !.hasLastVersion = TRUE,
                          !.lastVersion = IF d.id = 0 THEN PyNone
                                          ELSE MaxNum(rows)]]

\* Doc.last_version: the value, and the Doc with it cached
LastVersion(d, rows) ==
    IF d.hasLastVersion THEN [val |-> d.lastVersion, d |-> d]
    ELSE LET val == IF d.id = 0 THEN PyNone
                    ELSE MaxNum({r \in rows : r.id = d.id})
         IN [val |-> val,
             d |-> [d EXCEPT !.hasLastVersion = TRUE, !.lastVersion = val]]

\* a faulty variant of LastPublishableVersion: the publishable flag is not
\* part of the selection
LastPublishableVersion_AnyVersion(d, rows) ==
    IF d.id = 0 THEN PyNone
    ELSE MaxNum({r \in rows : r.id = d.id})

\* Doc.last_publishable_version
LastPublishableVersion(d, rows) ==
    IF d.id = 0 THEN PyNone
    ELSE MaxNum({r \in rows : r.id = d.id /\ r.publishable = "Y"})

\* Doc.version: return self._version = value
SetVersion(d, value) ==
    [val |-> value, err |-> "",
     d |-> [d EXCEPT !.hasVersion = TRUE, !.version = value,
                     !.versionRuns = @ + 1],
     hit |-> FALSE]
\* Doc.version: raise Exception(message)
VersionError(d, message) ==
    [val |-> PyNone, err |-> message, d |-> d, hit |-> FALSE]

\* dateutil.parser.parse: a date is the number of its day, written in
\* digits; any other string is not recognized
DateOk(s) == AllDigits(s)
DateVal(s) == NatVal(s)

\* Doc.__get_version_before, called by Doc.version with tokens[1].  The
\* query selects MAX(num): fetchone() returns a row whether or not a version
\* is that early, with NULL in it when none is, so that `if not row` is
\* never true.
GetVersionBefore(d, rows, before) ==
    IF ~DateOk(before) THEN VersionError(d, "unrecognized date/time format")
    ELSE SetVersion(d, MaxNum({r \in rows : r.id = d.id
                                             /\ r.dt < DateVal(before)}))

\* Doc.version for a string specifier, lowercased
StrVersionOf(d, rows, spec) ==
    IF spec = <<"c", "u", "r", "r", "e", "n", "t">>
    THEN SetVersion(d, PyNone)
    ELSE IF spec \in {<<"l", "a", "s", "t">>,
                      <<"l", "a", "s", "t", "v", "e", "r", "s", "i", "o", "n">>}
    THEN LET r == LastVersion(d, rows)
         IN IF Falsy(r.val) THEN VersionError(r.d, NOT_VERSIONED)
            ELSE SetVersion(r.d, r.val)
    ELSE IF StartsWith(spec, <<"l", "a", "s", "t", "p">>)
    THEN LET v == LastPublishableVersion(d, rows)
         IN IF Falsy(v) THEN VersionError(d, NO_PUBLISHABLE_VERSIONS)
            ELSE SetVersion(d, v)
    ELSE IF StartsWith(spec, <<"b", "e", "f", "o", "r", "e", " ">>)
    THEN GetVersionBefore(d, rows, SubSeq(spec, 8, Len(spec)))
    ELSE IF IntOk(spec) THEN SetVersion(d, PyVal(IntVal(spec)))
    ELSE VersionError(d, "invalid version spec")

\* Doc.version (the specifier "label ..." is not among the arguments drawn
\* here)
VersionOf(d, rows) ==
    IF d.hasVersion
    THEN [val |-> d.version, err |-> "", d |-> d, hit |-> TRUE]
    ELSE IF d.id = 0 THEN SetVersion(d, PyNone)
    ELSE IF d.opt.t = "none" \/ (d.opt.t = "int" /\ d.opt.n = 0)
            \/ (d.opt.t = "str" /\ d.opt.s = <<>>)
    THEN SetVersion(d, PyNone)
    ELSE IF d.opt.t = "int"
    THEN SetVersion(d, IF d.opt.n > 0 THEN PyVal(d.opt.n) ELSE PyNone)
    ELSE StrVersionOf(d, rows, Lower(d.opt.s))

\* what lastRead records: the property read, whether the value came from
\* the cache, the exception raised ("" for none) and the value returned
Read(prop, hit, err, val) ==
    [val |-> val, err |-> err, hit |-> hit, prop |-> prop, tree |-> NoTree,
     text |-> NoText]
NoRead == Read("none", FALSE, "", PyNone)

NoDoc == NewDoc(0, NoVersion)

\* no Doc is in use
DocIdle ==
    /\ doc = NoDoc
    /\ versions = {}
    /\ lastRead = NoRead

\* reading doc.version
version ==
    /\ LET r == VersionOf(doc, versions)
       IN /\ doc' = r.d
          /\ lastRead' = Read("version", r.hit, r.err, r.val)
    /\ UNCHANGED <<versions, qvars, lvars, rvars, cvars>>

\* reading doc.last_version
last_version ==
    /\ LET r == LastVersion(doc, versions)
       IN /\ doc' = r.d
          /\ lastRead' = Read("last_version", FALSE, "", r.val)
    /\ UNCHANGED <<versions, qvars, lvars, rvars, cvars>>

\* reading doc.last_publishable_version
last_publishable_version ==
    /\ lastRead' = Read("last_publishable_version", FALSE, "",
                        LastPublishableVersion(doc, versions))
    /\ UNCHANGED <<doc, versions, qvars, lvars, rvars, cvars>>

\* the document and doc_version tables hold the serialized document in the
\* column xml: <d/> for the working copy, <v/> for a version
DocumentXml == <<"<", "d", "/", ">">>
VersionXml == <<"<", "v", "/", ">">>

\* Doc.xml (getter), after self._xml = self.__opts.get("xml") found nothing
\* and self.version was read with result r: the row is fetched from
\* doc_version for a version, from document for the working copy
XmlFetched(r, rows) ==
    IF r.err # "" THEN [err |-> r.err,
                        d |-> r.d,
                        text |-> NoText]
    ELSE IF Falsy(r.val)
    THEN [err |-> "",
          d |-> [r.d EXCEPT !.xml = DocumentXml],
          text |-> DocumentXml]
    ELSE IF \A x \in rows : ~(x.id = r.d.id /\ x.num = r.val.v)
    THEN [err |-> "no xml found",
          d |-> r.d,
          text |-> NoText]
    ELSE [err |-> "",
          d |-> [r.d EXCEPT !.xml = VersionXml],
          text |-> VersionXml]

\* Doc.xml (getter): the text, the exception raised and the Doc afterwards
XmlOf(d, rows) ==
    IF d.hasXml THEN [err |-> "",
                      d |-> d,
                      text |-> d.xml]
    ELSE IF d.optXml # NoText
    THEN [err |-> "",
          d |-> [d EXCEPT !.hasXml = TRUE, !.xml = d.optXml],
          text |-> d.optXml]
    ELSE IF d.id # 0
    THEN XmlFetched(VersionOf([d EXCEPT !.hasXml = TRUE, !.xml = NoText],
                              rows),
                    rows)
    ELSE [err |-> "",
          d |-> [d EXCEPT !.hasXml = TRUE, !.xml = NoText],
          text |-> NoText]

\* etree.fromstring accepts the documents made of one empty element
WellFormed(text) ==
    /\ Len(text) = 4
    /\ text[1] = "<" /\ text[2] \notin {"<", "/", ">"}
    /\ text[3] = "/" /\ text[4] = ">"
\* etree.fromstring: the tree of a well-formed document
Parse(text) == text[2]

\* Doc.root after self.xml was read with result x
RootParsed(x) ==
    IF x.err # "" THEN [err |-> x.err,
                        d |-> x.d,
                        hit |-> FALSE,
                        tree |-> NoTree]
    ELSE IF x.text = NoText
    THEN [err |-> "AttributeError",
          d |-> x.d,
          hit |-> FALSE,
          tree |-> NoTree]
    ELSE IF ~WellFormed(x.text)
    THEN [err |-> "XMLSyntaxError",
          d |-> x.d,
          hit |-> FALSE,
          tree |-> NoTree]
    ELSE [err |-> "",
          d |-> [x.d EXCEPT !.hasRoot = TRUE, !.root = Parse(x.text),
                            !.rootRuns = @ + 1],
          hit |-> FALSE,
          tree |-> Parse(x.text)]

\* Doc.root
RootOf(d, rows) ==
    IF d.hasRoot THEN [err |-> "",
                       d |-> d,
                       hit |-> TRUE,
                       tree |-> d.root]
    ELSE RootParsed(XmlOf(d, rows))

\* the effect of reading doc.root with result r
RootRead(r) ==
    /\ doc' = r.d
    /\ lastRead' = [Read("root", r.hit, r.err, PyNone) EXCEPT !.tree = r.tree]
    /\ UNCHANGED <<versions, qvars, lvars, rvars, cvars>>

\* reading doc.root
root == RootRead(RootOf(doc, versions))

\* the effect of reading doc.xml with result r
XmlRead(r) ==
    /\ doc' = r.d
    /\ lastRead' = [Read("xml", FALSE, r.err, PyNone) EXCEPT !.text = r.text]
    /\ UNCHANGED <<versions, qvars, lvars, rvars, cvars>>

\* reading doc.xml
xml == XmlRead(XmlOf(doc, versions))

\* Doc.xml (setter): doc.xml = value, for a unicode string
SetXml(value) ==
    /\ doc' = [doc EXCEPT !.hasXml = TRUE, !.xml = value,
                          !.hasRoot = TRUE, !.root = NoTree,
                          !.hasVersion = TRUE, !.version = PyNone,
                          !.assigned = TRUE,
                          !.versionRuns = 0, !.rootRuns = 0]
    /\ lastRead' = Read("assign", FALSE, "", PyNone)
    /\ UNCHANGED <<versions, qvars, lvars, rvars, cvars>>

----------------------------------------------------------------------------
(* Locks (Doc.lock, Doc.unlock).  A row of the checkout table tells which  *)
(* user checked out which document; the row is open while dt_in is NULL.   *)
(* The methods are read as methods of the Doc (`self` first), with the     *)
(* session and the user id taken from self.session.                        *)

\* a row of the checkout table
CheckoutRow(id, usr, open) == [open |-> open,
                               id |-> id,
                               usr |-> usr]

\* what fetchone() returns when the query selects nothing
NoRow == CheckoutRow(0, "", FALSE)

\* Session.can_do(action, doctype), for the type of the document
CanDo(usr, action) == <<usr, action>> \in grants

\* Doc.lock: the query for the open row of the document (dt_in IS NULL)
OpenRows(rows, id) == {r \in rows : r.id = id /\ r.open}

\* cursor.fetchone(): one of the rows selected, or nothing
Fetchone(rows) == IF rows = {} THEN {NoRow} ELSE rows

\* the outcome of a call: the exception raised ("" for none) and the rows
\* of the checkout table afterwards
Outcome(err, rows) == [err |-> err, rows |-> rows]

\* Doc.unlock: the body of the method is its docstring; nothing is tested
\* and nothing is changed
Unlock(rows, usr, force) == Outcome("", rows)

\* a faulty variant of Lock: the holder of the lock is not recognized
Lock_HolderNotTested(rows, usr, force, row) ==
    IF ~CanDo(usr, "MODIFY DOCUMENT")
    THEN Outcome("User not authorized to modify document", rows)
    ELSE IF row = NoRow THEN Outcome("", rows)
    ELSE IF force
    THEN IF ~CanDo(usr, "FORCE CHECKOUT")
         THEN Outcome("User not authorized to force checkout", rows)
         ELSE Unlock(rows, usr, TRUE)
    ELSE Outcome("", rows)

\* Doc.lock, with the row fetchone() returned for the open lock; the
\* method ends after the test of the row: no row is added
Lock(rows, usr, force, row) ==
    IF ~CanDo(usr, "MODIFY DOCUMENT")
    THEN Outcome("User not authorized to modify document", rows)
    ELSE IF row = NoRow THEN Outcome("", rows)
    ELSE IF row.usr = usr THEN Outcome("", rows)
    ELSE IF force
    THEN IF ~CanDo(usr, "FORCE CHECKOUT")
         THEN Outcome("User not authorized to force checkout", rows)
         ELSE Unlock(rows, usr, TRUE)
    ELSE Outcome("", rows)

\* what lastCall records: the method, the calling user, the force flag,
\* the exception raised ("" for none) and the checkout table before the
\* call
LockCalled(op, usr, force, err) ==
    [err |-> err, op |-> op, usr |-> usr, force |-> force, was |-> checkout]
NoCall == [err |-> "", op |-> "none", usr |-> "", force |-> FALSE, was |-> {}]

\* the effect of a call with outcome r
LockEnds(op, usr, force, r) ==
    /\ checkout' = r.rows
    /\ lastCall' = LockCalled(op, usr, force, r.err)
    /\ UNCHANGED <<grants, qvars, dvars, rvars, cvars>>

\* doc.lock(force=force) in the session of usr, for the document id
lock(id, usr, force) ==
    \E row \in Fetchone(OpenRows(checkout, id)) :
        LockEnds("lock", usr, force, Lock(checkout, usr, force, row))

\* doc.unlock(force=force) in the session of usr
unlock(id, usr, force) ==
    LockEnds("unlock", usr, force, Unlock(checkout, usr, force))

\* no lock is in use
LockIdle ==
    /\ checkout = {}
    /\ grants = {}
    /\ lastCall = NoCall

----------------------------------------------------------------------------
(* The sql-query function of the resolver (Resolver.run_sql_query).  The   *)
(* argument of the function, the query and the values are sequences of     *)
(* characters.                                                             *)

\* the characters \s matches
Whitespace == {" ", "TAB"}

\* a word as a regular expression: one set of characters per position
Word(w) == [k \in 1..Len(w) |-> {w[k]}]

\* Resolver.UNSAFE.  The two string literals of the source are joined
\* without a `|` between them: the fifth alternative is
\* alter\sexec[(\s].  The expression is compiled without re.IGNORECASE.
UNSAFE ==
    { Word(<<"i", "n", "s", "e", "r", "t">>) \o <<Whitespace>>,
      Word(<<"u", "p", "d", "a", "t", "e">>) \o <<Whitespace>>,
      Word(<<"d", "e", "l", "e", "t", "e">>) \o <<Whitespace>>,
      Word(<<"c", "r", "e", "a", "t", "e">>) \o <<Whitespace>>,
      Word(<<"a", "l", "t", "e", "r">>) \o <<Whitespace>>
          \o Word(<<"e", "x", "e", "c">>) \o <<Whitespace \cup {"("}>>,
      Word(<<"e", "x", "e", "c", "u", "t", "e">>)
          \o <<Whitespace \cup {"("}>> }

\* the pattern matches the string at position i
MatchAt(string, i, pattern) ==
    /\ i + Len(pattern) - 1 <= Len(string)
    /\ \A k \in 1..Len(pattern) : string[i + k - 1] \in pattern[k]

\* regex.search(string): some alternative matches somewhere
Search(regex, string) ==
    \E pattern \in regex : \E i \in 1..Len(string) :
        MatchAt(string, i, pattern)

\* string.count(ch)
Count(string, ch) == Cardinality({i \in 1..Len(string) : string[i] = ch})

\* the position of the first ch in a string which has one
FirstOf(string, ch) ==
    CHOOSE i \in 1..Len(string) :
        string[i] = ch /\ \A j \in 1..(i - 1) : string[j] # ch

\* string.split(ch)
RECURSIVE SplitAt(_, _)
SplitAt(string, ch) ==
    IF Count(string, ch) = 0 THEN <<string>>
    ELSE <<SubSeq(string, 1, FirstOf(string, ch) - 1)>>
         \o SplitAt(SubSeq(string, FirstOf(string, ch) + 1, Len(string)), ch)

\* run_sql_query: the query in args
SqlQuery(args) ==
    IF Count(args, "~") > 0 THEN SubSeq(args, 1, FirstOf(args, "~") - 1)
    ELSE args

\* run_sql_query: the values in args
SqlValues(args) ==
    IF Count(args, "~") > 0
    THEN SplitAt(SubSeq(args, FirstOf(args, "~") + 1, Len(args)), "~")
    ELSE <<>>

\* db.Query.PLACEHOLDER
PLACEHOLDER == "?"

\* query.replace("?", db.Query.PLACEHOLDER) unless the placeholder is "?"
WithPlaceholders(query) ==
    IF PLACEHOLDER # "?"
    THEN [i \in 1..Len(query) |->
             IF query[i] = "?" THEN PLACEHOLDER ELSE query[i]]
    ELSE query

\* what lastSql records: the argument of the call, the exception raised
\* ("" for none), whether cursor.execute was called, and the statement and
\* the values it was called with
SqlCalled(args, err, sent, query, values) ==
    [query |-> query,
     err |-> err,
     values |-> values,
     sent |-> sent,
     args |-> args]
NoSql == SqlCalled(<<>>, "none", FALSE, <<>>, <<>>)

\* a faulty variant of RunSqlQuery: the placeholders are not counted
RunSqlQuery_NotCounted(args, query, values) ==
    IF Search(UNSAFE, query)
    THEN SqlCalled(args, "query contains disallowed sql keywords", FALSE,
                   <<>>, <<>>)
    ELSE SqlCalled(args, "", TRUE, WithPlaceholders(query), values)

\* Resolver.run_sql_query, once args is split into query and values, up to
\* the call of cursor.execute
RunSqlQuery(args, query, values) ==
    IF Search(UNSAFE, query)
    THEN SqlCalled(args, "query contains disallowed sql keywords", FALSE,
                   <<>>, <<>>)
    ELSE IF Count(query, "?") # Len(values)
    THEN SqlCalled(args, "wrong number of sql query placeholder values",
                   FALSE, <<>>, <<>>)
    ELSE SqlCalled(args, "", TRUE, WithPlaceholders(query), values)

\* Resolver.run_sql_query(args, context)
run_sql_query(args) ==
    /\ lastSql' = RunSqlQuery(args, SqlQuery(args), SqlValues(args))
    /\ UNCHANGED <<qvars, dvars, lvars, cvars>>

\* the resolver was not called
SqlIdle == lastSql = NoSql

----------------------------------------------------------------------------
(* The dedup-ids function of the resolver (Resolver.dedup_ids).  The       *)
(* argument and the tokens are sequences of characters.                    *)

LowerLetters == <<"a", "b", "c", "d", "e", "f", "g", "h", "i", "j", "k", "l",
                  "m", "n", "o", "p", "q", "r", "s", "t", "u", "v", "w", "x",
                  "y", "z">>
UpperLetters == <<"A", "B", "C", "D", "E", "F", "G", "H", "I", "J", "K", "L",
                  "M", "N", "O", "P", "Q", "R", "S", "T", "U", "V", "W", "X",
                  "Y", "Z">>

\* str.upper(), character by character
UpperChar(ch) ==
    IF \E i \in DOMAIN LowerLetters : LowerLetters[i] = ch
    THEN UpperLetters[CHOOSE i \in DOMAIN LowerLetters : LowerLetters[i] = ch]
    ELSE ch
UpperOf(s) == [i \in 1..Len(s) |-> UpperChar(s[i])]

\* Resolver.ID_KEY_STRIP, [^A-Z0-9]+ : the characters it leaves in place
ID_KEY_STRIP == {UpperLetters[i] : i \in DOMAIN UpperLetters} \cup Digits

\* Resolver.make_id_key
make_id_key(id) == SelectSeq(UpperOf(id), LAMBDA ch : ch \in ID_KEY_STRIP)

\* "~~" in args
HasSeparator(args) ==
    \E i \in 1..(Len(args) - 1) : args[i] = "~" /\ args[i + 1] = "~"

\* args.split("~~", 1): where the first "~~" begins
SeparatorAt(args) ==
    CHOOSE i \in 1..(Len(args) - 1) :
        /\ args[i] = "~" /\ args[i + 1] = "~"
        /\ \A j \in 1..(i - 1) : ~(args[j] = "~" /\ args[j + 1] = "~")

\* dedup_ids: the tokens before and after the first "~~"
PrimaryOf(args) == SplitAt(SubSeq(args, 1, SeparatorAt(args) - 1), "~")
SecondaryOf(args) ==
    SplitAt(SubSeq(args, SeparatorAt(args) + 2, Len(args)), "~")

\* dedup_ids: for p in primary: skip.add(self.make_id_key(p))
PrimaryKeys(primary) == {make_id_key(primary[i]) : i \in DOMAIN primary}

\* a faulty variant of Dedup: a token is not remembered once it is emitted
RECURSIVE Dedup_NotRemembered(_, _, _)
Dedup_NotRemembered(secondary, skip, ids) ==
    IF secondary = <<>> THEN ids
    ELSE IF make_id_key(Head(secondary)) # <<>>
            /\ make_id_key(Head(secondary)) \notin skip
    THEN Dedup_NotRemembered(Tail(secondary), skip,
                             Append(ids, Head(secondary)))
    ELSE Dedup_NotRemembered(Tail(secondary), skip, ids)

\* dedup_ids: the loop over the secondary tokens, with the set skip and the
\* list ids so far
RECURSIVE Dedup(_, _, _)
Dedup(secondary, skip, ids) ==
    IF secondary = <<>> THEN ids
    ELSE IF make_id_key(Head(secondary)) # <<>>
            /\ make_id_key(Head(secondary)) \notin skip
    THEN Dedup(Tail(secondary), skip \cup {make_id_key(Head(secondary))},
               Append(ids, Head(secondary)))
    ELSE Dedup(Tail(secondary), skip, ids)

\* what lastDedup records: the argument, whether the function was called,
\* the tokens it found and the ids of the result
Deduped(args, called, primary, secondary, ids) ==
    [args |-> args,
     primary |-> primary,
     secondary |-> secondary,
     ids |-> ids,
     called |-> called]

\* Resolver.dedup_ids(args, context): the id elements of the result
DedupIds(args) ==
    IF HasSeparator(args)
    THEN Deduped(args, TRUE, PrimaryOf(args), SecondaryOf(args),
                 Dedup(SecondaryOf(args), PrimaryKeys(PrimaryOf(args)), <<>>))
    ELSE Deduped(args, TRUE, <<>>, <<>>, <<>>)

\* the function is called with the argument which waits in lastDedup
dedup_ids ==
    /\ ~lastDedup.called
    /\ lastDedup' = DedupIds(lastDedup.args)
    /\ UNCHANGED <<qvars, dvars, lvars, rvars, tvars, fvars, svars, avars>>

\* the function was not called
DedupIdle == lastDedup = Deduped(<<>>, TRUE, <<>>, <<>>, <<>>)

----------------------------------------------------------------------------
(* Terms and their class-wide cache (class Term).  Term.get_term and       *)
(* Term.__init__ call each other through Term.get_parent; the calls a      *)
(* thread is in are the frames of its stack.  A block `with cls.lock` is   *)
(* one step, taken while no thread holds the lock.  In Term.__init__ the   *)
(* bare name `root` (docs.py 1077) is read as doc.root.                    *)

\* the threads of the process
Threads == {"t1", "t2"}
NoThread == ""

\* Term.MAX_DEPTH
MAX_DEPTH == 15
\* Term.MAX_CACHE_AGE, in days; the clock counts days
MAX_CACHE_AGE == 1

\* a Term object: its document, its name and the keys of its dictionary
\* parents; None is NoTerm
TermObj(doc_id, name, parents) ==
    [name |-> name,
     doc_id |-> doc_id,
     parents |-> parents]
NoTerm == TermObj(0, "", {})

\* an entry of the dictionary Term.terms
Cached(doc_id, term) == [term |-> term,
                         key |-> doc_id]
\* doc_id in cls.terms, cls.terms[doc_id]
InTerms(cache, doc_id) == \E e \in cache : e.key = doc_id
TermAt(cache, doc_id) == (CHOOSE e \in cache : e.key = doc_id).term

\* a call of Term.get_term(session, doc_id, depth) which has not reached
\* its first block yet
Frame(doc_id, depth) ==
    [name |-> "",
     doc_id |-> doc_id,
     parents |-> {},
     depth |-> depth,
     pc |-> "enter",
     todo |-> <<>>]

\* the error of get_term (docs.py 1127)
DepthExceeded == "term hierarchy depth exceeded at CDR()"

\* what lastTerm records for a thread: the document of its last call of
\* Term.get_term from outside, whether the call has ended, the exception
\* raised ("" for none), the Term returned, the number of calls of get_term
\* made for it, the cache and the counter when it began, and whether it
\* found the cache too old
Lookup(doc_id, done, err, term, lookups, was, enabled, expired) ==
    [err |-> err,
     was |-> was,
     doc_id |-> doc_id,
     term |-> term,
     done |-> done,
     lookups |-> lookups,
     enabled |-> enabled,
     expired |-> expired]
NoLookup == Lookup(0, TRUE, "", NoTerm, 0, {}, FALSE, FALSE)

\* what lastSet records: the argument of the last call of Term.set_cache,
\* the counter before it, the value returned, and the counter and the
\* cache after it
CacheSet(on, was, ret, counter, cache) ==
    [was |-> was,
     cache |-> cache,
     on |-> on,
     ret |-> ret,
     counter |-> counter]
NoSet == CacheSet(FALSE, 0, FALSE, 0, {})

\* cache_age > cls.MAX_CACHE_AGE
Expired == clock - cache_started > MAX_CACHE_AGE

\* the exception leaves get_term, and every Term.__init__ and get_term
\* below it: no handler keeps an exception whose message is not the one of
\* Doc.NO_PUBLISHABLE_VERSIONS (docs.py 1081-1084)
RaiseTerm(t, err) ==
    /\ calls' = [calls EXCEPT ![t] = <<>>]
    /\ lastTerm' = [lastTerm EXCEPT ![t].done = TRUE, ![t].err = err]

\* Term.get_parent after get_term returned parent (docs.py 1121-1123): the
\* frame of Term.__init__ goes on with the next node
Resumed(frame, parent) ==
    [frame EXCEPT !.todo = Tail(@),
                  !.parents = IF parent # NoTerm
                              THEN @ \cup parent.parents \cup {parent.doc_id}
                              ELSE @]

\* get_term returns term: to Term.get_parent when the call came from it,
\* else to the caller outside
ReturnTerm(t, stack, term) ==
    IF Len(stack) = 1
    THEN /\ calls' = [calls EXCEPT ![t] = <<>>]
         /\ lastTerm' = [lastTerm EXCEPT ![t].done = TRUE, ![t].term = term]
    ELSE /\ calls' = [calls EXCEPT ![t] =
                         SubSeq(stack, 1, Len(stack) - 2)
                         \o <<Resumed(stack[Len(stack) - 1], term)>>]
         /\ UNCHANGED lastTerm

\* the last frame of a stack replaced
WithTop(stack, frame) == SubSeq(stack, 1, Len(stack) - 1) \o <<frame>>

\* Term.__init__ up to the loop over the parents (docs.py 1063-1076), with
\* the outcome r of the version which doc.root reads for
\* Doc(session, id=doc_id, version="lastp") and the row of the document
\* (its publishable version is well-formed): without a publishable version
\* the method returns with the name None, and any other exception is
\* raised again (docs.py 1081-1084)
Constructed(t, stack, frame, r, row) ==
    IF r.err = ""
    THEN /\ calls' = [calls EXCEPT ![t] =
                         WithTop(stack, [frame EXCEPT !.pc = "init",
                                                      !.name = row.name,
                                                      !.todo = row.refs])]
         /\ UNCHANGED lastTerm
    ELSE IF r.err = NO_PUBLISHABLE_VERSIONS
    THEN /\ calls' = [calls EXCEPT ![t] =
                         WithTop(stack, [frame EXCEPT !.pc = "init"])]
         /\ UNCHANGED lastTerm
    ELSE RaiseTerm(t, r.err)

\* get_term after the test of the depth: the first block under the lock
\* (docs.py 1129-1137).  When the cache is in use and too old the method
\* calls cls.set_cache while it holds cls.lock, a threading.Lock, which
\* set_cache waits for.
FirstBlock(t, stack, frame) ==
    IF use_cache > 0 /\ Expired
    THEN /\ termLock' = t
         /\ calls' = [calls EXCEPT ![t] =
                         WithTop(stack, [frame EXCEPT !.pc = "set_cache"])]
         /\ lastTerm' = [lastTerm EXCEPT ![t].expired = TRUE]
    ELSE /\ UNCHANGED termLock
         /\ IF InTerms(terms, frame.doc_id)
            THEN ReturnTerm(t, stack, TermAt(terms, frame.doc_id))
            ELSE Constructed(t, stack, frame,
                             VersionOf(NewDoc(frame.doc_id,
                                              StrVersion(<<"l", "a", "s", "t", "p">>)),
                                       versions),
                             termDocs[frame.doc_id])

\* Term.get_term from its first line to the call of Term.__init__
Enter(t) ==
    /\ calls[t] # <<>>
    /\ calls[t][Len(calls[t])].pc = "enter"
    /\ IF calls[t][Len(calls[t])].depth > MAX_DEPTH
       THEN RaiseTerm(t, DepthExceeded) /\ UNCHANGED termLock
       ELSE /\ termLock = NoThread
            /\ FirstBlock(t, calls[t], calls[t][Len(calls[t])])
    /\ UNCHANGED <<clock, use_cache, terms, cache_started, lastSet, termDocs>>
    /\ UNCHANGED <<qvars, dvars, lvars, rvars, lastDedup, fvars, svars,
                 avars>>

\* Term.get_parent for the next ParentTerm/TermId node of Term.__init__
\* (docs.py 1077-1078, 1113-1120): get_term is called one level deeper
\* unless the parent is known already
GetParent(t, stack, frame) ==
    IF Head(frame.todo) \in frame.parents
    THEN WithTop(stack, [frame EXCEPT !.todo = Tail(@)])
    ELSE stack \o <<Frame(Head(frame.todo), frame.depth + 1)>>

get_parent(t) ==
    /\ calls[t] # <<>>
    /\ calls[t][Len(calls[t])].pc = "init"
    /\ calls[t][Len(calls[t])].todo # <<>>
    /\ calls' = [calls EXCEPT ![t] = GetParent(t, @, @[Len(@)])]
    /\ lastTerm' = [lastTerm EXCEPT ![t].lookups =
                       @ + Len(calls'[t]) - Len(calls[t])]
    /\ UNCHANGED <<clock, use_cache, terms, cache_started, termLock, lastSet,
                   termDocs>>
    /\ UNCHANGED <<qvars, dvars, lvars, rvars, lastDedup, fvars, svars,
                 avars>>

\* a faulty variant of Installed: the Term is stored whether or not the
\* cache is in use
Installed_Always(cache, counter, doc_id, term) ==
    IF ~InTerms(cache, doc_id)
    THEN cache \cup {Cached(doc_id, term)}
    ELSE cache

\* get_term: the second block under the lock (docs.py 1140-1142)
Installed(cache, counter, doc_id, term) ==
    IF counter > 0 /\ ~InTerms(cache, doc_id)
    THEN cache \cup {Cached(doc_id, term)}
    ELSE cache

\* get_term after Term.__init__ has returned (docs.py 1138-1143)
SecondBlock(t, stack, frame, term) ==
    /\ terms' = Installed(terms, use_cache, frame.doc_id, term)
    /\ ReturnTerm(t, stack, term)

\* the end of Term.__init__ and the rest of get_term
Install(t) ==
    /\ calls[t] # <<>>
    /\ calls[t][Len(calls[t])].pc = "init"
    /\ calls[t][Len(calls[t])].todo = <<>>
    /\ termLock = NoThread
    /\ SecondBlock(t, calls[t], calls[t][Len(calls[t])],
                   IF calls[t][Len(calls[t])].name = "" THEN NoTerm
                   ELSE TermObj(calls[t][Len(calls[t])].doc_id,
                                calls[t][Len(calls[t])].name,
                                calls[t][Len(calls[t])].parents))
    /\ UNCHANGED <<clock, use_cache, cache_started, termLock, lastSet,
                   termDocs>>
    /\ UNCHANGED <<qvars, dvars, lvars, rvars, lastDedup, fvars, svars,
                 avars>>

\* Term.get_term(session, doc_id), called from outside (Resolver.get_term)
get_term(t, doc_id) ==
    /\ calls[t] = <<>>
    /\ calls' = [calls EXCEPT ![t] = <<Frame(doc_id, 0)>>]
    /\ lastTerm' = [lastTerm EXCEPT ![t] =
                       Lookup(doc_id, FALSE, "", NoTerm, 1, terms,
                              use_cache > 0, FALSE)]
    /\ UNCHANGED <<clock, use_cache, terms, cache_started, termLock, lastSet,
                   termDocs>>
    /\ UNCHANGED <<qvars, dvars, lvars, rvars, lastDedup, fvars, svars,
                 avars>>

\* set_cache: cls.use_cache -= 1, and 0 when that is negative
Decremented(counter) == IF counter - 1 < 0 THEN 0 ELSE counter - 1

\* Term.set_cache(False), with the counter it leaves
SetCacheOff(t, counter) ==
    /\ use_cache' = counter
    /\ terms' = IF counter = 0 THEN {} ELSE terms
    /\ lastSet' = CacheSet(FALSE, use_cache, use_cache > 0, counter, terms')
    /\ UNCHANGED cache_started

\* Term.set_cache(True)
SetCacheOn(t) ==
    /\ use_cache' = use_cache + 1
    /\ cache_started' = IF use_cache > 0 THEN cache_started ELSE clock
    /\ lastSet' = CacheSet(TRUE, use_cache, use_cache > 0, use_cache + 1,
                           terms)
    /\ UNCHANGED terms

\* Term.set_cache(on), called from outside: one block under the lock
set_cache(t, on) ==
    /\ calls[t] = <<>>
    /\ termLock = NoThread
    /\ IF on THEN use_cache < MaxEnabled /\ SetCacheOn(t)
       ELSE SetCacheOff(t, Decremented(use_cache))
    /\ UNCHANGED <<clock, termLock, calls, lastTerm, termDocs>>
    /\ UNCHANGED <<qvars, dvars, lvars, rvars, lastDedup, fvars, svars,
                 avars>>

\* a day passes
Tick ==
    /\ clock < MaxNow
    /\ clock' = clock + 1
    /\ UNCHANGED <<use_cache, terms, cache_started, termLock, calls,
                   lastTerm, lastSet, termDocs>>
    /\ UNCHANGED <<qvars, dvars, lvars, rvars, lastDedup, fvars, svars,
                 avars>>

\* no Term was asked for: the class is as the module defines it (the clock
\* stands for the None of cache_started)
TermFresh ==
    /\ clock = 0
    /\ use_cache = 0
    /\ terms = {}
    /\ cache_started = 0
    /\ termLock = NoThread
    /\ calls = [t \in Threads |-> <<>>]
    /\ lastTerm = [t \in Threads |-> NoLookup]
    /\ lastSet = NoSet

TermIdle == TermFresh /\ termDocs = <<>>

----------------------------------------------------------------------------
(* Filters and their cache (class Filter).  The two blocks of get_filter   *)
(* under Filter.filter_lock are one step each; the query for the XML of    *)
(* the filter, made between them, reads a table which does not change.     *)
(* cls.Filter(doc_id, xml) (docs.py 1223) is read as cls(doc_id, xml).     *)

\* the threads which ask for Filters
FilterThreads == Threads \cup {"t3"}

\* Filter.SHELF_LIFE, in seconds; the clock wall (time.time()) counts
\* seconds
SHELF_LIFE == 60

\* a Filter object: self.doc_id, self.xml and self.now, and, to tell the
\* objects apart, when and by which thread it was made
FilterObj(doc_id, text, seen, fetched, by) ==
    [xml |-> text,
     doc_id |-> doc_id,
     fetched |-> fetched,
     by |-> by,
     now |-> seen]

\* the table good_filters: the XML of a filter
GoodFilter(doc_id) == <<"<", "f", "/", ">">>

\* a faulty variant of Stale: the age is that of the fetch
Stale_SinceFetched(f) == wall - f.fetched > SHELF_LIFE

\* Filter.stale: the answer; the method sets self.now to the time of the
\* call
Stale(f) == wall - f.now > SHELF_LIFE
Touched(f) == [f EXCEPT !.now = wall]

\* what lastFilter records for a thread: the filter of its last call of
\* get_filter, whether the call has ended, whether its first block found
\* nothing to return, how many entries had been evicted by the end of that
\* block, when the entry it found had been asked for last (the time of the
\* call, if it found none), when the call was made, the object returned
\* (when and by which thread it was made), when it was returned and how
\* many entries had been evicted by then
FilterCall(doc_id, done, missed, since, last, asked, fetched, by, at, gen) ==
    [last |-> last,
     doc_id |-> doc_id,
     done |-> done,
     fetched |-> fetched,
     by |-> by,
     missed |-> missed,
     since |-> since,
     asked |-> asked,
     at |-> at,
     gen |-> gen]
NoFilterCall == FilterCall(0, TRUE, FALSE, 0, 0, 0, 0, NoThread, 0, 0)

\* a call of get_filter at the end of its first block
Asked(doc_id, missed, since, last) ==
    FilterCall(doc_id, FALSE, missed, since, last, wall, 0, NoThread, 0, 0)

\* get_filter returns f
ReturnFilter(t, f, call) ==
    lastFilter' = [lastFilter EXCEPT ![t] =
                      FilterCall(call.doc_id, TRUE, call.missed, call.since,
                                 call.last, call.asked, f.fetched, f.by,
                                 wall, evictions)]

\* get_filter: the first block (docs.py 1202-1208) when the cache holds f
\* for the filter
Found(t, f) ==
    IF Stale(f)
    THEN /\ filters' = filters \ {f}
         /\ evictions' = evictions + 1
         /\ lastFilter' = [lastFilter EXCEPT ![t] =
                              Asked(f.doc_id, TRUE, evictions + 1, f.now)]
    ELSE /\ filters' = (filters \ {f}) \cup {Touched(f)}
         /\ UNCHANGED evictions
         /\ ReturnFilter(t, Touched(f),
                         Asked(f.doc_id, FALSE, evictions, f.now))

\* get_filter: the first block when the cache holds nothing for the filter
NotFound(t, doc_id) ==
    /\ lastFilter' = [lastFilter EXCEPT ![t] =
                         Asked(doc_id, TRUE, evictions, wall)]
    /\ UNCHANGED <<filters, evictions>>

\* Filter.get_filter(doc_id, cursor) up to the end of its first block
get_filter(t, doc_id) ==
    /\ lastFilter[t].done
    /\ IF \E f \in filters : f.doc_id = doc_id
       THEN Found(t, CHOOSE f \in filters : f.doc_id = doc_id)
       ELSE NotFound(t, doc_id)
    /\ UNCHANGED wall
    /\ UNCHANGED <<qvars, dvars, lvars, rvars, lastDedup, tvars, svars,
                 avars>>

\* a faulty variant of Fetched: the Filter made from the XML just fetched
\* takes the place of the one in the cache
Fetched_Overwrites(t, doc_id, made, held) ==
    /\ filters' = (filters \ held) \cup {made}
    /\ ReturnFilter(t, made, lastFilter[t])

\* get_filter: the second block (docs.py 1221-1224), with the Filter the
\* block would make and the entries the cache holds for the filter
Fetched(t, doc_id, made, held) ==
    IF held = {}
    THEN /\ filters' = filters \cup {made}
         /\ ReturnFilter(t, made, lastFilter[t])
    ELSE /\ UNCHANGED filters
         /\ ReturnFilter(t, CHOOSE f \in held : TRUE, lastFilter[t])

\* the rest of get_filter: the XML is fetched (docs.py 1211-1220) and the
\* second block is run
fetch_filter(t) ==
    /\ ~lastFilter[t].done
    /\ Fetched(t, lastFilter[t].doc_id,
               FilterObj(lastFilter[t].doc_id,
                         GoodFilter(lastFilter[t].doc_id), wall, wall, t),
               {f \in filters : f.doc_id = lastFilter[t].doc_id})
    /\ UNCHANGED <<wall, evictions>>
    /\ UNCHANGED <<qvars, dvars, lvars, rvars, lastDedup, tvars, svars,
                 avars>>

\* half of the shelf life passes
TickSeconds ==
    /\ wall < MaxTicks * (SHELF_LIFE \div 2)
    /\ wall' = wall + SHELF_LIFE \div 2
    /\ UNCHANGED <<filters, lastFilter, evictions>>
    /\ UNCHANGED <<qvars, dvars, lvars, rvars, lastDedup, tvars, svars,
                 avars>>

\* no Filter was asked for
FilterIdle ==
    /\ wall = 0
    /\ filters = {}
    /\ lastFilter = [t \in FilterThreads |-> NoFilterCall]
    /\ evictions = 0

----------------------------------------------------------------------------
(* Doc.filter and the Docs being filtered (Resolver.local.docs)            *)

\* a faulty variant of StackOf: Resolver.local is an object all threads
\* share
StackOf_Shared(t) == "t1"

\* class Local(threading.local): each thread has a list docs of its own
StackOf(t) == t

\* s[-1] and s after s.pop()
LastOf(s) == s[Len(s)]
FrontOf(s) == SubSeq(s, 1, Len(s) - 1)

\* a call of Doc.filter: the Doc, whether it was appended to the list, and
\* the list the call found
FilterFrame(self, pushed, before) ==
    [before |-> before,
     self |-> self,
     pushed |-> pushed]

\* what lastResolve records: the Doc the callback took from the list
\* (self.doc) and the Doc of the call of filter it was made in (0: none)
Resolved(seen, innermost) == [seen |-> seen, innermost |-> innermost]

\* what lastEnd records: whether the call raised, whether it had appended
\* its Doc, the list it found and the list it left
Ended(raised, pushed, before, after) ==
    [before |-> before,
     pushed |-> pushed,
     raised |-> raised,
     after |-> after]
NoEnd == Ended(FALSE, FALSE, <<>>, <<>>)

\* Doc.filter is called; a call within another is made from a resolver
\* callback of the other
filter(t, self) ==
    /\ Len(filtering[t]) < MaxNest
    /\ filtering[t] # <<>> => LastOf(filtering[t]).pushed
    /\ filtering' = [filtering EXCEPT ![t] =
                        Append(@, FilterFrame(self, FALSE,
                                              docs[StackOf(t)]))]
    /\ UNCHANGED <<docs, lastResolve, lastEnd>>
    /\ UNCHANGED <<qvars, dvars, lvars, rvars, lastDedup, tvars, fvars, avars>>

\* Doc.filter raises before its Doc is appended (docs.py 794-798)
FilterFails(t) ==
    /\ filtering[t] # <<>>
    /\ ~LastOf(filtering[t]).pushed
    /\ filtering' = [filtering EXCEPT ![t] = FrontOf(@)]
    /\ lastEnd' = [lastEnd EXCEPT ![t] =
                      Ended(TRUE, FALSE, LastOf(filtering[t]).before,
                            docs[StackOf(t)])]
    /\ UNCHANGED <<docs, lastResolve>>
    /\ UNCHANGED <<qvars, dvars, lvars, rvars, lastDedup, tvars, fvars, avars>>

\* Resolver.local.docs.append(self) (docs.py 799)
FilterPush(t) ==
    /\ filtering[t] # <<>>
    /\ ~LastOf(filtering[t]).pushed
    /\ docs' = [docs EXCEPT ![StackOf(t)] =
                   Append(@, LastOf(filtering[t]).self)]
    /\ filtering' = [filtering EXCEPT ![t][Len(filtering[t])].pushed = TRUE]
    /\ UNCHANGED <<lastResolve, lastEnd>>
    /\ UNCHANGED <<qvars, dvars, lvars, rvars, lastDedup, tvars, fvars, avars>>

\* self.local.docs[-1] (0 for the IndexError of an empty list)
CurrentDoc(s) == IF s = <<>> THEN 0 ELSE LastOf(s)

\* Resolver.resolve, called while a filter is applied: self.doc
resolve(t) ==
    /\ filtering[t] # <<>>
    /\ LastOf(filtering[t]).pushed
    /\ lastResolve' = [lastResolve EXCEPT ![t] =
                          Resolved(CurrentDoc(docs[StackOf(t)]),
                                   LastOf(filtering[t]).self)]
    /\ UNCHANGED <<docs, filtering, lastEnd>>
    /\ UNCHANGED <<qvars, dvars, lvars, rvars, lastDedup, tvars, fvars, avars>>

\* Resolver.local.docs.pop() (an empty list is left as it is)
Popped(s) == IF s = <<>> THEN s ELSE FrontOf(s)

\* Doc.filter ends after its Doc was appended, by a return or by an
\* exception of a filter: the finally clause (docs.py 809-810)
FilterEnds(t, raised) ==
    /\ filtering[t] # <<>>
    /\ LastOf(filtering[t]).pushed
    /\ docs' = [docs EXCEPT ![StackOf(t)] = Popped(@)]
    /\ filtering' = [filtering EXCEPT ![t] = FrontOf(@)]
    /\ lastEnd' = [lastEnd EXCEPT ![t] =
                      Ended(raised, TRUE, LastOf(filtering[t]).before,
                            Popped(docs[StackOf(t)]))]
    /\ UNCHANGED lastResolve
    /\ UNCHANGED <<qvars, dvars, lvars, rvars, lastDedup, tvars, fvars, avars>>

\* no Doc is being filtered
StackIdle ==
    /\ docs = [t \in Threads |-> <<>>]
    /\ filtering = [t \in Threads |-> <<>>]
    /\ lastResolve = [t \in Threads |-> Resolved(0, 0)]
    /\ lastEnd = [t \in Threads |-> NoEnd]

----------------------------------------------------------------------------
(* Doc.modifier and Doc.modified                                           *)

\* a row of audit_trail, joined with usr and action
AuditRow(document, dt, usr, action) ==
    [dt |-> dt,
     usr |-> usr,
     action |-> action,
     document |-> document]

\* the value of a property: None, or a name and a date/time
PropValue(none, name, dt) == [none |-> none, name |-> name, dt |-> dt]
NoValue == PropValue(TRUE, "", 0)

\* the attributes _modifier and _modified (has: they are set) and the audit
\* trail when they were set
ModInfo(has, modifier, modified, was) ==
    [was |-> was,
     has |-> has,
     modifier |-> modifier,
     modified |-> modified]
NoModInfo == ModInfo(FALSE, NoValue, NoValue, {})

\* the rows the query of __fetch_modification_info selects
Modifications(id, trail) ==
    {r \in trail : r.document = id /\ r.action = "MODIFY DOCUMENT"}

\* the first row of the query: limit(1) and order("t.dt")
FirstRow(rows) == CHOOSE r \in rows : \A o \in rows : r.dt <= o.dt

\* the attributes, given the row fetchone() returned
FromRow(row, trail) ==
    ModInfo(TRUE, PropValue(FALSE, row.usr, 0), PropValue(FALSE, "", row.dt),
            trail)

\* Doc.__fetch_modification_info
FetchModificationInfo(id, rows, trail) ==
    IF id # 0 /\ rows # {}
    THEN FromRow(FirstRow(rows), trail)
    ELSE ModInfo(TRUE, NoValue, NoValue, trail)

\* the attributes after a read of modifier or modified
Fetched_Info(info) ==
    IF info.has THEN info
    ELSE FetchModificationInfo(doc.id, Modifications(doc.id, audit_trail),
                               audit_trail)

\* reading doc.modifier
modifier ==
    /\ modInfo' = Fetched_Info(modInfo)
    /\ lastProp' = [val |-> modInfo'.modifier,
                    name |-> "modifier"]
    /\ UNCHANGED audit_trail
    /\ UNCHANGED <<qvars, dvars, lvars, rvars, lastDedup, tvars, fvars, svars>>

\* reading doc.modified
modified ==
    /\ modInfo' = Fetched_Info(modInfo)
    /\ lastProp' = [val |-> modInfo'.modified,
                    name |-> "modified"]
    /\ UNCHANGED audit_trail
    /\ UNCHANGED <<qvars, dvars, lvars, rvars, lastDedup, tvars, fvars, svars>>

\* an action on a document is logged
Log(document, usr, action) ==
    /\ Cardinality(audit_trail) < MaxAudit
    /\ audit_trail' = audit_trail \cup
                      {AuditRow(document, Cardinality(audit_trail) + 1, usr,
                                action)}
    /\ UNCHANGED <<modInfo, lastProp>>
    /\ UNCHANGED <<qvars, dvars, lvars, rvars, lastDedup, tvars, fvars, svars>>

\* nothing is logged and nothing was read
AuditIdle ==
    /\ audit_trail = {}
    /\ modInfo = NoModInfo
    /\ lastProp = [val |-> NoValue,
                   name |-> ""]

\* nothing but queries, one Doc, its lock and the sql-query function is in
\* use
ClassesIdle ==
    DedupIdle /\ TermIdle /\ FilterIdle /\ StackIdle /\ AuditIdle

----------------------------------------------------------------------------
(* The queries of a behaviour and the arguments the calls draw from *)

Columns(q) == CASE q = "q1" -> <<"a.i", "b.n">> [] q = "q2" -> <<"i">>
                [] OTHER -> <<"n">>
TableName(q) == CASE q = "q1" -> "t1 a" [] q = "q2" -> "t2" [] OTHER -> "t3"

\* Query(table, *columns) for every object; tables maps the objects built
\* on another Query to that Query
Construct(tables) ==
    [q \in QIds |->
        NewQuery(IF q \in DOMAIN tables THEN Virtual(tables[q])
                 ELSE Named(TableName(q)),
                 Columns(q))]

NoOp == [q |-> "q1", err |-> "", op |-> "init", sent |-> FALSE, mut |-> "init"]

\* conditions
LitA == Lit("a.i < 44")
LitB == Lit("b.n LIKE '%o%'")
LitOn == Lit("b.i = a.i")
CondEq == Condition("c1", Scalar(7), "=")
CondIn == Condition("c2", List(<<8, 9>>), "in")
CondNotIn == Condition("c3", List(<<>>), "Not In")
CondInOne == Condition("c5", Scalar(5), "IN")
CondLt == Condition("c6", Scalar(6), "<")
CondSub(r) == Condition("c4", Nested(r), "NOT IN")

\* the values bound to the placeholders of a Condition, by its column
ValuesOf(col) ==
    CASE col = "c1" -> <<7>> [] col = "c2" -> <<8, 9>> [] col = "c5" -> <<5>>
      [] col = "c6" -> <<6>> [] OTHER -> <<>>

----------------------------------------------------------------------------
(* Spec: queries built on queries (virtual tables, joined result sets,     *)
(* sub-queries in conditions, unions) and their cached statements          *)

Init ==
    /\ \E t1 \in {"", "q2"}, t2 \in {"", "q3"} :
          qs = Construct([q \in {x \in {"q1", "q2"} :
                                   (x = "q1" /\ t1 # "") \/ (x = "q2" /\ t2 # "")}
                          |-> IF q = "q1" THEN t1 ELSE t2])
    /\ lastOp = NoOp
    /\ nops = 0
    /\ DocIdle
    /\ LockIdle
    /\ SqlIdle
    /\ ClassesIdle

Next ==
    \/ \E q \in QIds : \E r \in Refs(q) : join(q, Virtual(r), <<LitOn>>)
    \/ \E q \in QIds : where(q, CondEq)
    \/ \E q \in QIds : \E r \in Refs(q) : where(q, CondSub(r))
    \/ \E q \in QIds : \E r \in Refs(q) : union(q, r)
    \/ \E q \in QIds : alias(q, "x")
    \/ \E q \in QIds : str(q)
    \/ parms("q1")
    \/ execute("q1")

Spec == Init /\ [][Next]_vars

----------------------------------------------------------------------------
(* SpecBuild: one statement q1 built clause by clause, with the query q2   *)
(* as its virtual table, joined result set, sub-query or union member      *)

InitBuild ==
    /\ \E t1 \in {"", "q2"} :
          qs = Construct([q \in {x \in {"q1"} : t1 # ""} |-> t1])
    /\ lastOp = NoOp
    /\ nops = 0
    /\ DocIdle
    /\ LockIdle
    /\ SqlIdle
    /\ ClassesIdle

NextBuild ==
    \/ \E t \in {Named("t2 b"), Virtual("q2")} : join("q1", t, <<LitOn>>)
    \/ outer("q1", Named("t2 b"), <<LitOn>>)
    \/ \E c \in {LitA, CondSub("q2")} : where("q1", c)
    \/ group("q1", <<"i">>)
    \/ having("q1", Lit("COUNT(*) > 2"))
    \/ union("q1", "q2")
    \/ order("q1", << <<"n", "desc">> >>)
    \/ limit("q1", PyInt(2))
    \/ unique("q1")
    \/ into("q1", "#t3")
    \/ alias("q2", "x")
    \/ str("q1")
    \/ parms("q1")
    \/ execute("q1")

SpecBuild == InitBuild /\ [][NextBuild]_vars

----------------------------------------------------------------------------
(* SpecErrors: the calls on q1 and on its nested query q2 which can raise  *)

OrderArgs == { << <<"1">> >>, << <<"n", "desc">> >>, << <<"n", "up">> >>,
               << <<"i">>, <<"a", "b", "c">> >> }
LimitArgs == { PyInt(0), PyInt(2), PyInt(-1), PyStr(1), PyFloat(2) }

NextErrors ==
    \/ join("q1", Virtual("q2"), <<LitOn>>)
    \/ \E c \in {CondNotIn, CondSub("q2")} : where("q1", c)
    \/ \E columns \in OrderArgs : order("q1", columns)
    \/ \E value \in LimitArgs : limit("q1", value)
    \/ alias("q2", "x")
    \/ where("q2", CondEq)
    \/ \E q \in {"q1", "q2"} : str(q)
    \/ parms("q1")
    \/ execute("q1")

SpecErrors == InitBuild /\ [][NextErrors]_vars

----------------------------------------------------------------------------
(* SpecDoc: a Doc made for a document with some saved versions, and the    *)
(* reads of its version properties                                         *)

\* saved versions of the document
MaxVersion == 3

VersionArgs ==
    { NoVersion, IntVersion(2), IntVersion(0), IntVersion(-1),
      StrVersion(<<"l", "a", "s", "t", "p">>),
      StrVersion(<<"L", "A", "S", "T", "P">>),
      StrVersion(<<"L", "a", "s", "t", "P", "u", "b">>),
      StrVersion(<<"l", "a", "s", "t", "p", " ", "x">>),
      StrVersion(<<"l", "a", "s", "t">>),
      StrVersion(<<"L", "a", "s", "t", "V", "e", "r", "s", "i", "o", "n">>),
      StrVersion(<<"C", "u", "r", "r", "e", "n", "t">>),
      StrVersion(<<"L", "A", "S", "T">>),
      StrVersion(<<"b", "e", "f", "o", "r", "e", " ", "1">>),
      StrVersion(<<"B", "e", "f", "o", "r", "e", " ", "2">>),
      StrVersion(<<"b", "e", "f", "o", "r", "e", " ", "3">>),
      StrVersion(<<"b", "e", "f", "o", "r", "e", " ", "9">>),
      StrVersion(<<"b", "e", "f", "o", "r", "e", " ", "x">>),
      StrVersion(<<"b", "e", "f", "o", "r", "e">>),
      StrVersion(<<"2">>), StrVersion(<<"+", "2">>), StrVersion(<<"0">>),
      StrVersion(<<"-", "1">>), StrVersion(<<"x">>),
      StrVersion(<<>>) }

\* the ids of the document of the Doc and of another document; a Doc for a
\* document not yet saved has the id 0 (`not self.id`)
DocIds == <<1, 2>>

\* doc_version: versions 1..n of the document, each publishable or not,
\* version i created on day i + 1, and versions of the other document, one
\* of them created before all of these
VersionTables ==
    { {[id |-> DocIds[1], num |-> i, publishable |-> f[i], dt |-> i + 1]
          : i \in 1..n}
      \cup {[id |-> DocIds[2], num |-> MaxVersion + 1, publishable |-> "Y",
             dt |-> 0],
            [id |-> DocIds[2], num |-> MaxVersion + 2, publishable |-> "N",
             dt |-> MaxVersion + 2]}
      : n \in 0..MaxVersion, f \in [1..MaxVersion -> {"Y", "N"}] }

InitDoc ==
    /\ qs = Construct(<<>>)
    /\ lastOp = NoOp
    /\ nops = 0
    /\ \E id \in {0, DocIds[1]}, v \in VersionArgs : doc = NewDoc(id, v)
    /\ versions \in VersionTables
    /\ lastRead = NoRead
    /\ LockIdle
    /\ SqlIdle
    /\ ClassesIdle

NextDoc ==
    \/ version
    \/ last_version
    \/ last_publishable_version

SpecDoc == InitDoc /\ [][NextDoc]_vars

----------------------------------------------------------------------------
(* SpecXml: a Doc whose xml is assigned to, and the reads of its lazily    *)
(* computed properties xml, root and version                               *)

\* serialized documents: two well-formed ones and one which does not parse
XmlTexts ==
    { <<"<", "a", "/", ">">>, <<"<", "b", "/", ">">>, <<"<", "a", ">">> }

\* the version options of the Docs of SpecXml
XmlVersionArgs ==
    { NoVersion, IntVersion(2), StrVersion(<<"l", "a", "s", "t">>),
      StrVersion(<<"l", "a", "s", "t", "p">>), StrVersion(<<"x">>) }

InitXml ==
    /\ qs = Construct(<<>>)
    /\ lastOp = NoOp
    /\ nops = 0
    /\ \E id \in {0, DocIds[1]}, v \in XmlVersionArgs,
          x \in {NoText, <<"<", "a", "/", ">">>} : doc = NewDocXml(id, v, x)
    /\ versions \in VersionTables
    /\ lastRead = NoRead
    /\ LockIdle
    /\ SqlIdle
    /\ ClassesIdle

NextXml ==
    \/ version
    \/ root
    \/ xml
    \/ \E value \in XmlTexts : SetXml(value)

SpecXml == InitXml /\ [][NextXml]_vars

----------------------------------------------------------------------------
(* SpecConds: the conditions of one statement q1: literals, Condition      *)
(* objects with one value or a list of values, and Or groups               *)

\* Or groups: a Condition first; a literal, then a tuple which ends the
\* group; an Or first and a Condition last; two literals
OrCondFirst == Or(<<CondEq, LitA>>)
OrTupleLast == Or(<<LitA, Tuple(<<LitB, CondIn>>)>>)
OrNested == Or(<<Or(<<LitA, LitB>>), CondLt>>)
OrLits == Or(<<LitA, LitB>>)

WhereArgs == { LitA, CondEq, CondIn, CondNotIn, CondInOne,
               OrCondFirst, OrTupleLast, OrNested, OrLits }

InitConds ==
    /\ qs = Construct(<<>>)
    /\ lastOp = NoOp
    /\ nops = 0
    /\ DocIdle
    /\ LockIdle
    /\ SqlIdle
    /\ ClassesIdle

NextConds ==
    \/ \E c \in WhereArgs : where("q1", c)
    \/ \E c \in {Lit("COUNT(*) > 2"), CondLt, CondNotIn} : having("q1", c)
    \/ \E c \in {LitOn, CondInOne} : join("q1", Named("t2 b"), <<c>>)
    \/ outer("q1", Named("t3 c"), <<Tuple(<<LitOn, CondIn>>)>>)
    \/ str("q1")
    \/ parms("q1")
    \/ execute("q1")

SpecConds == InitConds /\ [][NextConds]_vars

----------------------------------------------------------------------------
(* Reading a rendered statement *)

RenderOps == {"str", "parms", "execute"}

\* the tokens of a statement in textual order
RECURSIVE Flat(_)
Flat(lines) ==
    IF lines = <<>> THEN <<>>
    ELSE <<Head(lines).kw>> \o Head(lines).rest \o Flat(Tail(lines))

\* the columns of the Condition objects in use
CondCols == {"c1", "c2", "c3", "c4", "c5", "c6"}

\* the values which belong to the placeholders of a token stream, in
\* textual order: a placeholder belongs to the Condition whose column was
\* read last before it; -1 stands for a placeholder with no value
RECURSIVE BoundValues(_, _, _)
BoundValues(tokens, col, k) ==
    IF tokens = <<>> THEN <<>>
    ELSE LET t == Head(tokens)
         IN IF t \in CondCols THEN BoundValues(Tail(tokens), t, 0)
            ELSE IF t = "%s"
            THEN <<IF k < Len(ValuesOf(col)) THEN ValuesOf(col)[k + 1]
                   ELSE -1>> \o BoundValues(Tail(tokens), col, k + 1)
            ELSE BoundValues(Tail(tokens), col, k)

\* the heap with no statement cached
Cleared(h) == [q \in QIds |-> Invalidate(h[q])]

\* the queries an object uses as FROM table or as joined table
NestedTables(o) ==
    (IF o.table.k = "query" THEN {o.table.q} ELSE {})
    \cup {o.joins[i].table.q :
             i \in {j \in DOMAIN o.joins : o.joins[j].table.k = "query"}}

\* the conditions of a list with the Or groups and tuples among them taken
\* apart, in argument order
RECURSIVE Leaves(_)
Leaves(cs) ==
    IF cs = <<>> THEN <<>>
    ELSE (IF Head(cs).k \in {"or", "seq"} THEN Leaves(Head(cs).cs)
          ELSE <<Head(cs)>>) \o Leaves(Tail(cs))

RECURSIVE JoinLeaves(_)
JoinLeaves(joins) ==
    IF joins = <<>> THEN <<>>
    ELSE Leaves(Head(joins).conditions) \o JoinLeaves(Tail(joins))

\* the conditions of an object in the order of the clauses they belong to
OwnConditions(o) == JoinLeaves(o.joins) \o Leaves(o.where) \o Leaves(o.having)

\* the queries an object uses as the value of a Condition
ConditionQueries(o) ==
    LET leaves == OwnConditions(o)
    IN {leaves[i].val.q :
           i \in {j \in DOMAIN leaves : leaves[j].val.t = "query"}}

\* whether rendering q writes a placeholder, at any depth
RECURSIVE Parameterised(_, _)
Parameterised(h, q) ==
    LET o == h[q]
        leaves == OwnConditions(o)
    IN \/ \E i \in DOMAIN leaves :
             /\ leaves[i].k = "cond"
             /\ \/ leaves[i].val.t \in {"scalar", "list"}
                \/ leaves[i].val.t = "query"
                   /\ Parameterised(h, leaves[i].val.q)
       \/ \E t \in NestedTables(o) : Parameterised(h, t)
       \/ \E i \in DOMAIN o.unions : Parameterised(h, o.unions[i])

----------------------------------------------------------------------------
(* Claims about the statement and its parameters (Spec) *)

\* C1: in every statement rendered successfully the placeholders and the
\* parameter list agree: there are as many parameters as placeholders and
\* the i-th parameter is the value bound to the i-th placeholder of the
\* text, whatever the query is made of (union members included).
C1_PlaceholdersMatchParms ==
    \A q \in QIds :
        qs[q].cached => BoundValues(Flat(qs[q].str), "", 0) = qs[q].parms

\* C2: whatever calls were made, on a query or on a query nested in it,
\* str(query) and query.parms() give what a rendering from scratch of the
\* current clauses gives.
C2_RenderingIsCurrent ==
    \A q \in QIds :
        LET now == RenderQ(qs, q)
            fresh == RenderQ(Cleared(qs), q)
        IN /\ now.err = fresh.err
           /\ now.out = fresh.out
           /\ now.err = "" => now.h[q].parms = fresh.h[q].parms

\* C7: a query whose FROM table or joined table is a Query which writes a
\* placeholder (at any depth, rendered before or not) never renders: the
\* call fails.
C7_ParameterisedTableRejected ==
    (lastOp.op \in RenderOps /\ lastOp.err = "")
        => \A t \in NestedTables(qs[lastOp.q]) : ~Parameterised(qs, t)

----------------------------------------------------------------------------
(* Claims about the clauses of a statement (SpecBuild) *)

\* the lines of a cached statement which its own object wrote (not the
\* lines of the statements nested in it)
OwnLines(q) == SelectSeq(qs[q].str, LAMBDA l : l.own = q)

\* the place of a clause in the statement, by the keyword which opens it;
\* 0 for the keywords which continue a clause (ON, AND, OR)
ClauseRank(kw) ==
    CASE kw = "SELECT" -> 1 [] kw = "INTO" -> 2 [] kw = "FROM" -> 3
      [] kw \in {"JOIN", "LEFT OUTER JOIN"} -> 4 [] kw = "WHERE" -> 5
      [] kw = "GROUP BY" -> 6 [] kw = "HAVING" -> 7 [] kw = "UNION" -> 8
      [] kw = "ORDER BY" -> 9 [] OTHER -> 0

\* the lines which open a clause
HeadIdx(own) == {i \in DOMAIN own : ClauseRank(own[i].kw) # 0}

\* the clause line i belongs to: the one opened last before it
SectionOf(own, i) ==
    LET before == {j \in HeadIdx(own) : j <= i}
    IN IF before = {} THEN 0
       ELSE ClauseRank(own[CHOOSE j \in before :
                              \A k \in before : k <= j].kw)

\* the lines of a clause, and the position of one of them among them
SectionIdx(own, rank) == {i \in DOMAIN own : SectionOf(own, i) = rank}
PlaceIn(idx, i) == Cardinality({j \in idx : j <= i})

\* the k-th join of an object is what a line which opens a JOIN clause says
JoinLineIs(line, j) ==
    /\ line.kw = (IF j.outer THEN "LEFT OUTER JOIN" ELSE "JOIN")
    /\ line.rest = (IF j.table.k = "query" THEN <<"(">> ELSE <<j.table.n>>)

\* the clauses of the cached statement of q are in the fixed order
ClausesInOrder(q) ==
    LET own == OwnLines(q)
        o == qs[q]
        heads == HeadIdx(own)
        joins == {i \in heads : ClauseRank(own[i].kw) = 4}
        wheres == SectionIdx(own, 5)
        unions == {i \in heads : ClauseRank(own[i].kw) = 8}
    IN /\ own # <<>> /\ own[1].kw = "SELECT"
       /\ own[1].rest = (IF o.unique THEN <<"DISTINCT">> ELSE <<>>)
                        \o (IF o.hasLimit THEN <<"TOP", ToString(o.limit)>>
                            ELSE <<>>)
                        \o CommaJoin(o.columns)
       \* the clauses follow each other in the fixed order
       /\ \A i, j \in DOMAIN own :
             i < j => SectionOf(own, i) <= SectionOf(own, j)
       \* only JOIN and UNION clauses occur more than once
       /\ \A i, j \in heads :
             (i < j /\ ClauseRank(own[i].kw) = ClauseRank(own[j].kw))
                 => ClauseRank(own[i].kw) \in {4, 8}
       /\ \E i \in heads : own[i].kw = "FROM"
       /\ (o.into # NoName) <=> (\E i \in heads : own[i].kw = "INTO")
       /\ \A i \in DOMAIN own \ heads : SectionOf(own, i) \in {4, 5, 7}
       \* the joins in the order they were added
       /\ Cardinality(joins) = Len(o.joins)
       /\ \A i \in joins : JoinLineIs(own[i], o.joins[PlaceIn(joins, i)])
       \* the WHERE conditions in the order they were added
       /\ Cardinality(wheres) = Len(o.where)
       /\ \A i \in wheres :
             /\ own[i].kw = (IF PlaceIn(wheres, i) = 1 THEN "WHERE" ELSE "AND")
             /\ own[i].rest[1] = o.where[PlaceIn(wheres, i)].col
       \* one UNION block for each union
       /\ Cardinality(unions) = Len(o.unions)
       /\ (o.group # <<>>) <=> (\E i \in heads : own[i].kw = "GROUP BY")
       /\ (o.having # <<>>) <=> (\E i \in heads : own[i].kw = "HAVING")

\* C3: every rendered statement lists its clauses in the fixed order SELECT
\* [DISTINCT] [TOP n] columns, INTO, FROM, the joins in the order added, the
\* WHERE conditions in the order added (WHERE first, then AND), GROUP BY,
\* HAVING, the UNION blocks, ORDER BY, whatever the order of the calls was.
C3_ClausesInFixedOrder ==
    \A q \in QIds : qs[q].cached => ClausesInOrder(q)

\* a statement with a join, a condition and a sort order, where the
\* condition was added after the sort order
WitnessC3 ==
    /\ qs["q1"].cached
    /\ lastOp.op \in RenderOps
    /\ lastOp.mut = "where"
    /\ \E i \in DOMAIN qs["q1"].str : qs["q1"].str[i].kw = "ORDER BY"
    /\ \E i \in DOMAIN qs["q1"].str :
          ClauseRank(qs["q1"].str[i].kw) = 4

----------------------------------------------------------------------------
(* Claims about the errors of the builder (SpecErrors) *)

AliasErrors == {"Virtual tables must have an alias",
                "resultset expression without alias"}
PlaceholderErrors == {"Placeholders not allowed in virtual table",
                      "Placeholders not allowed in joined resultset expression"}
EmptyInError == "test with no values"
OrderError == "invalid order column"
LimitError == "limit must be integer"

\* C6 (as the code has it): a Query used as FROM table or as joined table
\* needs an alias, and rendering the outer query fails when it has none; a
\* Query used as the value of a Condition needs no alias, so the missing
\* alias error arises only for a FROM or joined table without alias.
C6_AliasForTables ==
    /\ (lastOp.op \in RenderOps /\ lastOp.err = "")
          => \A t \in NestedTables(qs[lastOp.q]) : qs[t].alias # NoName
    /\ lastOp.err \in AliasErrors
          => /\ lastOp.op \in RenderOps
             /\ \E t \in NestedTables(qs[lastOp.q]) : qs[t].alias = NoName

\* rendering failed for a FROM table without alias
WitnessC6 ==
    /\ lastOp.op = "str"
    /\ lastOp.err = "Virtual tables must have an alias"
    /\ qs["q1"].table.k = "query"
    /\ qs[qs["q1"].table.q].alias = NoName

\* C6 as stated: in all three positions (FROM table, joined table, value of
\* a Condition) a nested Query without alias makes the outer query fail.
C6_AliasInEveryPosition ==
    (lastOp.op \in RenderOps /\ lastOp.err = "")
        => \A t \in NestedTables(qs[lastOp.q])
                      \cup ConditionQueries(qs[lastOp.q]) :
               qs[t].alias # NoName

\* the direction words order() accepts
Directions == {"asc", "Asc", "ASC", "desc", "Desc", "DESC"}

C9_LimitNeverNegative ==
    \A q \in QIds : qs[q].hasLimit => qs[q].limit >= 0

----------------------------------------------------------------------------
(* Claims about conditions (SpecConds) *)

\* what a condition is to look like: a literal as it is, a Condition as
\* column, operator and placeholders, the members of an Or between
\* parentheses with OR between them, the elements of a tuple with AND
\* between them
RECURSIVE ExpectedCondition(_)
RECURSIVE ExpectedMembers(_, _)
ExpectedMembers(cs, word) ==
    IF cs = <<>> THEN <<>>
    ELSE IF Len(cs) = 1 THEN ExpectedCondition(cs[1])
    ELSE ExpectedCondition(cs[1]) \o <<word>>
         \o ExpectedMembers(Tail(cs), word)
ExpectedCondition(c) ==
    CASE c.k = "lit" -> <<c.col>>
      [] c.k = "or" -> <<"(">> \o ExpectedMembers(c.cs, "OR") \o <<")">>
      [] c.k = "seq" -> ExpectedMembers(c.cs, "AND")
      [] OTHER ->
           <<c.col, c.test>>
           \o (IF c.val.t = "list"
               THEN <<"(">> \o CommaJoin([i \in DOMAIN c.val.vs |-> "%s"])
                    \o <<")">>
               ELSE IF c.test \in {"in", "In", "IN", "not in", "Not In", "NOT IN"}
               THEN <<"(", "%s", ")">>
               ELSE <<"%s">>)

\* the first line with one of some keywords (past the end when none has)
FirstLine(lines, kws) ==
    LET found == {i \in DOMAIN lines : lines[i].kw \in kws}
    IN IF found = {} THEN Len(lines) + 1
       ELSE CHOOSE i \in found : \A j \in found : i <= j

\* the lines of the WHERE clause
WhereSection(lines) ==
    SubSeq(lines, FirstLine(lines, {"WHERE"}),
           FirstLine(lines, {"GROUP BY", "HAVING", "UNION", "ORDER BY"}) - 1)

\* C4: an Or group is rendered between one pair of parentheses, the
\* opening one before the whole first condition (before its column), the
\* closing one after the whole last condition, the members joined by OR,
\* the elements of a tuple by AND, in argument order: the WHERE clause
\* reads WHERE, then the conditions so rendered, with AND between them.
C4_OrGroupParenthesised ==
    qs["q1"].cached
        => Flat(WhereSection(qs["q1"].str))
               = (IF qs["q1"].where = <<>> THEN <<>>
                  ELSE <<"WHERE">> \o ExpectedMembers(qs["q1"].where, "AND"))

\* whether a condition is a Condition with IN or NOT IN and a list or a
\* single value (not a Query)
IsInCondition(c) ==
    /\ c.k = "cond"
    /\ c.test \in {"in", "In", "IN", "not in", "Not In", "NOT IN"}
    /\ c.val.t \in {"scalar", "list"}

\* the values of a condition, and of a list of conditions
ValuesIn(c) ==
    IF c.k # "cond" THEN <<>>
    ELSE IF c.val.t = "list" THEN c.val.vs
    ELSE IF c.val.t = "scalar" THEN <<c.val.v>> ELSE <<>>
RECURSIVE AllValuesIn(_)
AllValuesIn(cs) ==
    IF cs = <<>> THEN <<>> ELSE ValuesIn(Head(cs)) \o AllValuesIn(Tail(cs))

PlaceholdersIn(tokens) == Cardinality({i \in DOMAIN tokens : tokens[i] = "%s"})

\* C5: a Condition with IN or NOT IN (in any letter case) is rendered with
\* one placeholder for each of its values and adds the values, in order, to
\* the parameters; with no value, rendering the query fails and no
\* statement is produced or sent.
C5_InListPlaceholders ==
    LET o == qs["q1"]
        leaves == OwnConditions(o)
        ins == {i \in DOMAIN leaves : IsInCondition(leaves[i])}
    IN /\ o.cached
          => /\ \A i \in ins :
                   /\ ValuesIn(leaves[i]) # <<>>
                   /\ \E n \in DOMAIN o.str : leaves[i].col \in
                         {o.str[n].rest[k] : k \in DOMAIN o.str[n].rest}
                   /\ \A n \in DOMAIN o.str :
                         leaves[i].col \in
                             {o.str[n].rest[k] : k \in DOMAIN o.str[n].rest}
                         => PlaceholdersIn(o.str[n].rest)
                                = Len(ValuesIn(leaves[i]))
             /\ o.parms = AllValuesIn(leaves)
       /\ (lastOp.op \in RenderOps
           /\ \E i \in ins : ValuesIn(leaves[i]) = <<>>)
          => /\ lastOp.err = EmptyInError
             /\ ~lastOp.sent
             /\ ~o.cached

\* a statement was sent with the two values of an IN list (written "in")
\* as its parameters
WitnessC5 ==
    /\ lastOp.op = "execute" /\ lastOp.sent
    /\ qs["q1"].cached
    /\ qs["q1"].where = <<CondIn>>
    /\ qs["q1"].parms = <<8, 9>>

----------------------------------------------------------------------------
(* Claims about the version of a document (SpecDoc) *)

\* the specifiers which are "lastp" or start with it, in any letter case
LastpArgs ==
    { StrVersion(<<"l", "a", "s", "t", "p">>),
      StrVersion(<<"L", "A", "S", "T", "P">>),
      StrVersion(<<"L", "a", "s", "t", "P", "u", "b">>),
      StrVersion(<<"l", "a", "s", "t", "p", " ", "x">>) }

\* the numbers of the publishable versions of the document of the Doc
PublishableNums ==
    {r.num : r \in {x \in versions : x.id = doc.id /\ x.publishable = "Y"}}

\* the last read resolved "lastp": the greatest publishable version number
\* was returned, or the error for none when there is none
LastpResolved ==
    IF PublishableNums = {}
    THEN lastRead.err = NO_PUBLISHABLE_VERSIONS
    ELSE /\ lastRead.err = ""
         /\ ~lastRead.val.isNull
         /\ lastRead.val.v \in PublishableNums
         /\ \A n \in PublishableNums : n <= lastRead.val.v

LastArgs ==
    { StrVersion(<<"l", "a", "s", "t">>),
      StrVersion(<<"L", "A", "S", "T">>),
      StrVersion(<<"L", "a", "s", "t", "V", "e", "r", "s", "i", "o", "n">>) }

\* the numbers of the saved versions of the document of the Doc
SavedNums == {r.num : r \in {x \in versions : x.id = doc.id}}

\* the last read returned the greatest number among nums, or ended with
\* the error message when there is none
GreatestOrError(nums, message) ==
    IF nums = {}
    THEN lastRead.err = message
    ELSE /\ lastRead.err = ""
         /\ ~lastRead.val.isNull
         /\ lastRead.val.v \in nums
         /\ \A n \in nums : n <= lastRead.val.v

BeforeArgs ==
    { StrVersion(<<"b", "e", "f", "o", "r", "e", " ", "1">>),
      StrVersion(<<"B", "e", "f", "o", "r", "e", " ", "2">>),
      StrVersion(<<"b", "e", "f", "o", "r", "e", " ", "3">>),
      StrVersion(<<"b", "e", "f", "o", "r", "e", " ", "9">>) }

\* the date of a "before <date>" specifier
BeforeDate(opt) == DateVal(SubSeq(opt.s, 8, Len(opt.s)))

\* the numbers of the versions of the document of the Doc created
\* strictly before the date of its specifier
EarlierNums ==
    {r.num : r \in {x \in versions : x.id = doc.id
                                      /\ x.dt < BeforeDate(doc.opt)}}

\* C12: for a specifier "before <date>" version resolution returns the
\* greatest version number of the document created strictly before the
\* date, and fails with an error when no version of the document is that
\* early; it does not resolve to null then.
C12_VersionBefore ==
    (lastRead.prop = "version" /\ ~lastRead.hit
     /\ doc.opt \in BeforeArgs /\ doc.id # 0)
        => IF EarlierNums = {}
           THEN lastRead.err # ""
           ELSE GreatestOrError(EarlierNums, "")

\* the bare integer specifiers, as literals and as strings
IntegerArgs ==
    { IntVersion(2), IntVersion(0), IntVersion(-1),
      StrVersion(<<"2">>), StrVersion(<<"+", "2">>), StrVersion(<<"0">>),
      StrVersion(<<"-", "1">>) }

\* the integer a bare integer specifier stands for
IntegerOf(opt) == IF opt.t = "int" THEN opt.n ELSE IntVal(opt.s)

\* C13: a bare integer specifier, literal or string, resolves to that
\* integer when it is positive and to null when it is zero or negative,
\* the same for both forms.
C13_BareInteger ==
    (lastRead.prop = "version" /\ ~lastRead.hit
     /\ doc.opt \in IntegerArgs /\ doc.id # 0)
        => /\ lastRead.err = ""
           /\ lastRead.val = IF IntegerOf(doc.opt) > 0
                             THEN PyVal(IntegerOf(doc.opt)) ELSE PyNone

----------------------------------------------------------------------------
(* SpecLock: the users lock and unlock one document                        *)

Users == {"alice", "bob"}
Actions == {"MODIFY DOCUMENT", "FORCE CHECKOUT"}

\* the checkout table: the document is not checked out or one user holds
\* its open row; an earlier, closed row may be there, and the other
\* document is checked out
CheckoutTables ==
    { closed \cup held \cup {CheckoutRow(DocIds[2], "bob", TRUE)}
      : closed \in SUBSET {CheckoutRow(DocIds[1], "alice", FALSE)},
        held \in {{}} \cup {{CheckoutRow(DocIds[1], u, TRUE)} : u \in Users} }

\* a user who holds a lock was allowed to modify the document
InitLock ==
    /\ qs = Construct(<<>>)
    /\ lastOp = NoOp
    /\ nops = 0
    /\ DocIdle
    /\ SqlIdle
    /\ ClassesIdle
    /\ checkout \in CheckoutTables
    /\ grants \in SUBSET (Users \X Actions)
    /\ \A r \in OpenRows(checkout, DocIds[1]) :
          CanDo(r.usr, "MODIFY DOCUMENT")
    /\ lastCall = NoCall

NextLock ==
    \/ \E usr \in Users, force \in BOOLEAN : lock(DocIds[1], usr, force)
    \/ \E usr \in Users, force \in BOOLEAN : unlock(DocIds[1], usr, force)

SpecLock == InitLock /\ [][NextLock]_vars

----------------------------------------------------------------------------
(* SpecSql: calls of the sql-query function of the resolver                *)

\* how the queries begin: statements, and the words the function refuses,
\* in lower, upper and mixed case, alone and inside other text
SqlHeads ==
    { <<"s", "e", "l", "e", "c", "t">>,
      <<"i", "n", "s", "e", "r", "t">>,
      <<"u", "p", "d", "a", "t", "e">>,
      <<"d", "e", "l", "e", "t", "e">>,
      <<"D", "E", "L", "E", "T", "E">>,
      <<"D", "e", "l", "e", "t", "e">>,
      <<"c", "r", "e", "a", "t", "e">>,
      <<"a", "l", "t", "e", "r">>,
      <<"a", "l", "t", "e", "r", " ", "e", "x", "e", "c">>,
      <<"x", ";", "e", "x", "e", "c">>,
      <<"e", "x", "e", "c", "u", "t", "e">>,
      <<"E", "x", "e", "c", "u", "t", "e">> }

\* how the queries go on
SqlTails ==
    { <<" ", "x">>, <<"TAB", "x", "=", "?">>, <<"(", "?", ",", "?", ")">> }

\* the values which follow the query, each after a "~"
SqlSuffixes ==
    { <<>>, <<"~", "1">>, <<"~", "1", "~", "2">>, <<"~">> }

SqlArgs ==
    { head \o tail \o suffix :
        head \in SqlHeads, tail \in SqlTails, suffix \in SqlSuffixes }

InitSql ==
    /\ qs = Construct(<<>>)
    /\ lastOp = NoOp
    /\ nops = 0
    /\ DocIdle
    /\ LockIdle
    /\ SqlIdle
    /\ ClassesIdle

NextSql == \E args \in SqlArgs : run_sql_query(args)

SpecSql == InitSql /\ [][NextSql]_vars

----------------------------------------------------------------------------
(* SpecDedup: calls of the dedup-ids function of the resolver              *)

\* the tokens of the arguments: ids in lower and upper case, with and
\* without punctuation, and punctuation alone
DedupTokens == { <<"a">>, <<"A">>, <<"-", "a">>, <<"-">>, <<"b">> }

\* the lists of one to n tokens
TokenLists(n) == UNION {[1..k -> DedupTokens] : k \in 1..n}

\* "~".join(tokens)
RECURSIVE Joined(_)
Joined(tokens) ==
    IF Len(tokens) = 1 THEN tokens[1]
    ELSE tokens[1] \o <<"~">> \o Joined(Tail(tokens))

\* the example of the documentation of the function
DedupExample == <<"a", "~", "b", "~", "~", "a", "~", "c", "~", "d">>

\* primary and secondary tokens with "~~" between them, and lists of
\* tokens alone
DedupArgs ==
    { Joined(p) \o <<"~", "~">> \o Joined(x) :
        p \in TokenLists(MaxPrimary), x \in TokenLists(MaxSecondary) }
    \cup { Joined(p) : p \in TokenLists(MaxPrimary) }
    \cup { DedupExample }

InitDedup ==
    /\ qs = Construct(<<>>)
    /\ lastOp = NoOp
    /\ nops = 0
    /\ DocIdle
    /\ LockIdle
    /\ SqlIdle
    /\ TermIdle
    /\ FilterIdle
    /\ StackIdle
    /\ AuditIdle
    /\ \E args \in DedupArgs :
          lastDedup = Deduped(args, FALSE, <<>>, <<>>, <<>>)

NextDedup == dedup_ids

SpecDedup == InitDedup /\ [][NextDedup]_vars

----------------------------------------------------------------------------
(* SpecTerm: one thread asks for Terms and switches the cache              *)

\* the Term documents
TermIds == 1..(MAX_DEPTH + 2)

\* the row of a Term document: its PreferredName ("" when it has none) and
\* the documents its ParentTerm/TermId nodes refer to
TermRow(name, refs) == [name |-> name, refs |-> refs]

\* each document names the next one as its parent; the last has no parent
Chain ==
    [i \in TermIds |->
        TermRow("term", IF i < MAX_DEPTH + 2 THEN <<i + 1>> ELSE <<>>)]

\* the chain, the chain closed to a cycle (the last document names itself,
\* the one before it or the first one as its parent), a document with two
\* parents, and a document without a name
TermTables ==
    { Chain,
      [Chain EXCEPT ![MAX_DEPTH + 2].refs = <<MAX_DEPTH + 2>>],
      [Chain EXCEPT ![MAX_DEPTH + 2].refs = <<MAX_DEPTH + 1>>],
      [Chain EXCEPT ![MAX_DEPTH + 2].refs = <<1>>],
      [Chain EXCEPT ![MAX_DEPTH + 1].refs = <<MAX_DEPTH + 2, MAX_DEPTH + 2>>],
      [Chain EXCEPT ![3].name = ""] }

\* doc_version: one version of each document, publishable unless the
\* document is in unpub
TermVersions(ids, unpub) ==
    { [id |-> i, num |-> 1,
       publishable |-> IF i \in unpub THEN "N" ELSE "Y", dt |-> 1]
      : i \in ids }

\* the documents the thread asks for
LookupIds == {1, 2, 3, MAX_DEPTH + 1, MAX_DEPTH + 2}

InitTerm ==
    /\ qs = Construct(<<>>)
    /\ lastOp = NoOp
    /\ nops = 0
    /\ doc = NoDoc
    /\ lastRead = NoRead
    /\ LockIdle
    /\ SqlIdle
    /\ DedupIdle
    /\ FilterIdle
    /\ StackIdle
    /\ AuditIdle
    /\ TermFresh
    /\ termDocs \in TermTables
    /\ \E unpub \in {{}, {3}, {MAX_DEPTH + 2}} :
          versions = TermVersions(TermIds, unpub)

NextTerm ==
    \/ \E doc_id \in LookupIds : get_term("t1", doc_id)
    \/ Enter("t1")
    \/ get_parent("t1")
    \/ Install("t1")
    \/ \E on \in BOOLEAN : set_cache("t1", on)
    \/ Tick

SpecTerm == InitTerm /\ [][NextTerm]_vars

----------------------------------------------------------------------------
(* SpecCache: two threads ask for Terms and switch the cache, while the    *)
(* days pass.  In SpecCacheLive a thread which can take a step of its call *)
(* takes it.                                                               *)

\* the documents the threads ask for: the last of the chain, which has no
\* parent, and the one before it, which has no publishable version
CachedIds == {MAX_DEPTH + 1, MAX_DEPTH + 2}

InitCache ==
    /\ qs = Construct(<<>>)
    /\ lastOp = NoOp
    /\ nops = 0
    /\ doc = NoDoc
    /\ lastRead = NoRead
    /\ LockIdle
    /\ SqlIdle
    /\ DedupIdle
    /\ FilterIdle
    /\ StackIdle
    /\ AuditIdle
    /\ TermFresh
    /\ termDocs = Chain
    /\ versions = TermVersions(TermIds, {MAX_DEPTH + 1})

NextCache ==
    \/ \E t \in Threads, doc_id \in CachedIds : get_term(t, doc_id)
    \/ \E t \in Threads : Enter(t)
    \/ \E t \in Threads : Install(t)
    \/ \E t \in Threads, on \in BOOLEAN : set_cache(t, on)
    \/ Tick

SpecCache == InitCache /\ [][NextCache]_vars

SpecCacheLive ==
    /\ SpecCache
    /\ \A t \in Threads : WF_vars(Enter(t)) /\ WF_vars(Install(t))

----------------------------------------------------------------------------
(* SpecFilter: three threads ask for one filter while the time passes      *)

FilterIds == {1}

InitFilter ==
    /\ qs = Construct(<<>>)
    /\ lastOp = NoOp
    /\ nops = 0
    /\ DocIdle
    /\ LockIdle
    /\ SqlIdle
    /\ DedupIdle
    /\ TermIdle
    /\ FilterIdle
    /\ StackIdle
    /\ AuditIdle

NextFilter ==
    \/ \E t \in FilterThreads, doc_id \in FilterIds : get_filter(t, doc_id)
    \/ \E t \in FilterThreads : fetch_filter(t)
    \/ TickSeconds

SpecFilter == InitFilter /\ [][NextFilter]_vars

----------------------------------------------------------------------------
(* SpecStack: two threads filter Docs, one call within another             *)

StackDocs == {1, 2}

InitStack ==
    /\ qs = Construct(<<>>)
    /\ lastOp = NoOp
    /\ nops = 0
    /\ DocIdle
    /\ LockIdle
    /\ SqlIdle
    /\ ClassesIdle

NextStack ==
    \/ \E t \in Threads, self \in StackDocs : filter(t, self)
    \/ \E t \in Threads : FilterFails(t)
    \/ \E t \in Threads : FilterPush(t)
    \/ \E t \in Threads : resolve(t)
    \/ \E t \in Threads, raised \in BOOLEAN : FilterEnds(t, raised)

SpecStack == InitStack /\ [][NextStack]_vars

----------------------------------------------------------------------------
(* SpecAudit: a Doc whose modifier and modified are read while actions on  *)
(* documents are logged                                                    *)

AuditUsers == {"alice", "bob"}
AuditActions == {"ADD DOCUMENT", "MODIFY DOCUMENT"}

InitAudit ==
    /\ qs = Construct(<<>>)
    /\ lastOp = NoOp
    /\ nops = 0
    /\ \E id \in {0, 1} : doc = NewDoc(id, NoVersion)
    /\ versions = {}
    /\ lastRead = NoRead
    /\ LockIdle
    /\ SqlIdle
    /\ DedupIdle
    /\ TermIdle
    /\ FilterIdle
    /\ StackIdle
    /\ AuditIdle

NextAudit ==
    \/ modifier
    \/ modified
    \/ \E document \in {1, 2}, usr \in AuditUsers, action \in AuditActions :
           Log(document, usr, action)

SpecAudit == InitAudit /\ [][NextAudit]_vars

----------------------------------------------------------------------------
(* Claims about the cached properties of a Doc (SpecXml) *)

\* the outcome of resolving the version specifier of the Doc again
FreshVersion == VersionOf(NewDoc(doc.id, doc.opt), versions)

\* the outcome of parsing the serialized document the Doc holds
FreshRoot == RootParsed([err |-> "", d |-> doc, text |-> doc.xml])

\* C14: after new XML is assigned to a Doc the cached tree and the cached
\* version are invalidated: the next read of root gives the parse of the
\* assigned XML and the next read of version the result of resolving the
\* version specifier again; between two assignments each of them is
\* computed at most once.
C14_AssignmentInvalidates ==
    /\ doc.versionRuns <= 1
    /\ doc.rootRuns <= 1
    /\ (doc.assigned /\ lastRead.prop = "root")
          => /\ lastRead.err = FreshRoot.err
             /\ lastRead.tree = FreshRoot.tree
    /\ (doc.assigned /\ lastRead.prop = "version")
          => /\ lastRead.err = FreshVersion.err
             /\ lastRead.val = FreshVersion.val

----------------------------------------------------------------------------
(* Claims about the locks of a document (SpecLock) *)

\* the users who hold an open lock row of the document
Holders(rows) == {r.usr : r \in OpenRows(rows, DocIds[1])}

NotAuthorized ==
    { "User not authorized to modify document",
      "User not authorized to force checkout" }

\* C16: lock() without the force flag by a user allowed to modify the
\* document, while another user holds the open lock, fails with the
\* already-locked error, and the other user still holds the lock.
C16_AlreadyLocked ==
    (/\ lastCall.op = "lock" /\ ~lastCall.force
     /\ CanDo(lastCall.usr, "MODIFY DOCUMENT")
     /\ Holders(lastCall.was) # {}
     /\ lastCall.usr \notin Holders(lastCall.was))
        => /\ lastCall.err \notin NotAuthorized \cup {""}
           /\ Holders(checkout) = Holders(lastCall.was)

\* C17: a lock() call which ends without error leaves the document locked
\* by the caller (from unlocked for a caller allowed to modify it, from
\* locked by another user for a caller who forces and is allowed to); a
\* caller not allowed to modify the document gets the unauthorized error
\* and the locks are unchanged.
C17_LockAcquires ==
    lastCall.op = "lock"
        => /\ lastCall.err = "" => Holders(checkout) = {lastCall.usr}
           /\ ~CanDo(lastCall.usr, "MODIFY DOCUMENT")
                 => /\ lastCall.err = "User not authorized to modify document"
                    /\ checkout = lastCall.was

\* C18: unlock() fails when the document has no open lock, and when
\* another user holds it unless the caller forces and is allowed to; the
\* locks are unchanged then.  In every other case the open row is closed
\* and the document is unlocked.
C18_Unlock ==
    lastCall.op = "unlock"
        => IF Holders(lastCall.was) = {}
              \/ (/\ lastCall.usr \notin Holders(lastCall.was)
                  /\ ~(lastCall.force
                       /\ CanDo(lastCall.usr, "FORCE CHECKOUT")))
           THEN lastCall.err # "" /\ checkout = lastCall.was
           ELSE lastCall.err = "" /\ Holders(checkout) = {}

----------------------------------------------------------------------------
(* Claims about the sql-query function (SpecSql) *)

\* the tokens no query may contain
DisallowedTokens ==
    { <<"i", "n", "s", "e", "r", "t">>, <<"u", "p", "d", "a", "t", "e">>,
      <<"d", "e", "l", "e", "t", "e">>, <<"c", "r", "e", "a", "t", "e">>,
      <<"a", "l", "t", "e", "r">>, <<"e", "x", "e", "c", "(">>,
      <<"e", "x", "e", "c", "u", "t", "e", "(">> }

\* the string contains the token, in any letter case
Contains(string, token) ==
    \E i \in 1..Len(string) :
        /\ i + Len(token) - 1 <= Len(string)
        /\ Lower(SubSeq(string, i, i + Len(token) - 1)) = token

\* what stands before the first "~" of the argument
BeforeTilde(args) ==
    IF \E i \in 1..Len(args) : args[i] = "~"
    THEN SubSeq(args, 1, (CHOOSE i \in 1..Len(args) :
                            args[i] = "~"
                            /\ \A j \in 1..(i - 1) : args[j] # "~") - 1)
    ELSE args

\* C19: a query which contains insert, update, delete, create, alter,
\* exec( or execute(, in any letter case, is rejected with the
\* disallowed-keyword error and no statement reaches the database.
C19_DisallowedKeywords ==
    (lastSql # NoSql
     /\ \E token \in DisallowedTokens :
           Contains(BeforeTilde(lastSql.args), token))
        => /\ lastSql.err = "query contains disallowed sql keywords"
           /\ ~lastSql.sent

\* the number of "?" in the query and of values after it in the argument
PlaceholderCount(args) == Count(BeforeTilde(args), "?")
Supplied(args) == Count(args, "~")

\* C20 (as the code has it): a statement is sent to the database only
\* after both tests have passed, the number of ? placeholders being the
\* number of ~-separated values; on a mismatch nothing is sent and the
\* call fails, with the placeholder-mismatch error when the test of the
\* keywords, which comes first, let the query pass.
C20_PlaceholdersGate ==
    /\ lastSql.sent
          => /\ PlaceholderCount(lastSql.args) = Supplied(lastSql.args)
             /\ ~Search(UNSAFE, BeforeTilde(lastSql.args))
             /\ Len(lastSql.values) = Supplied(lastSql.args)
    /\ (lastSql # NoSql
        /\ PlaceholderCount(lastSql.args) # Supplied(lastSql.args))
          => /\ ~lastSql.sent
             /\ lastSql.err # ""
             /\ ~Search(UNSAFE, BeforeTilde(lastSql.args))
                   => lastSql.err
                        = "wrong number of sql query placeholder values"

\* a statement with two placeholders was sent with two values
WitnessC20 ==
    /\ lastSql.sent
    /\ PlaceholderCount(lastSql.args) = 2
    /\ Len(lastSql.values) = 2

\* C20 as stated: a statement is sent only if the number of ? placeholders
\* equals the number of ~-separated values; on a mismatch the call fails
\* with the placeholder-mismatch error and no statement is executed.
C20_MismatchError ==
    /\ lastSql.sent
          => PlaceholderCount(lastSql.args) = Supplied(lastSql.args)
    /\ (lastSql # NoSql
        /\ PlaceholderCount(lastSql.args) # Supplied(lastSql.args))
          => /\ ~lastSql.sent
             /\ lastSql.err = "wrong number of sql query placeholder values"

----------------------------------------------------------------------------
(* Claims about the dedup-ids function (SpecDedup) *)

\* the normalized keys of the tokens of a list
KeyAt(tokens, i) == make_id_key(tokens[i])

\* the places of the secondary tokens whose key is that of no primary token
\* and of no earlier secondary token (an earlier token with the same key
\* was either emitted or dropped for a reason which holds for the later one
\* as well)
FirstOfKey(primary, secondary) ==
    { i \in DOMAIN secondary :
        /\ \A j \in DOMAIN primary : KeyAt(primary, j) # KeyAt(secondary, i)
        /\ \A j \in 1..(i - 1) : KeyAt(secondary, j) # KeyAt(secondary, i) }

\* the tokens at the places idx of a list, in the order of the list
RECURSIVE Picked(_, _, _)
Picked(tokens, idx, i) ==
    IF i > Len(tokens) THEN <<>>
    ELSE (IF i \in idx THEN <<tokens[i]>> ELSE <<>>)
         \o Picked(tokens, idx, i + 1)

\* the call was made with primary and secondary tokens
DedupCalled == lastDedup.called /\ HasSeparator(lastDedup.args)

\* C21 (as amended): dedup-ids returns exactly those secondary tokens whose
\* normalized key is not empty and equals no primary key and no key of an
\* earlier emitted secondary token, in their input order and in their
\* original spelling; for "a~b~~a~c~d" the result is [c, d].
C21_DedupIds ==
    /\ DedupCalled =>
          lastDedup.ids =
              Picked(lastDedup.secondary,
                     { i \in FirstOfKey(lastDedup.primary,
                                        lastDedup.secondary) :
                         KeyAt(lastDedup.secondary, i) # <<>> },
                     1)
    /\ (lastDedup.called /\ lastDedup.args = DedupExample) =>
          lastDedup.ids = << <<"c">>, <<"d">> >>

\* a call which drops a token for the key of a primary token, one for the
\* key of an emitted token and one for its empty key, and emits two tokens
WitnessC21 ==
    /\ DedupCalled
    /\ lastDedup.primary = << <<"b">> >>
    /\ lastDedup.secondary = << <<"a">>, <<"-">>, <<"-", "a">> >>
    /\ lastDedup.ids = << <<"a">> >>

\* C21 (as stated): every secondary token whose key equals no primary key
\* and no key of an earlier emitted token is returned, a token with an
\* empty key included.
C21_DedupIdsAnyKey ==
    DedupCalled =>
        lastDedup.ids = Picked(lastDedup.secondary,
                               FirstOfKey(lastDedup.primary,
                                          lastDedup.secondary),
                               1)

----------------------------------------------------------------------------
(* Claims about Terms and their cache (SpecTerm) *)

\* the document has a publishable version
Publishable(doc_id) ==
    \E r \in versions : r.id = doc_id /\ r.publishable = "Y"

\* the documents the parent references of the documents in ids name; the
\* references of a document are those of its last publishable version
ReferredBy(ids) ==
    UNION { {termDocs[i].refs[k] : k \in DOMAIN termDocs[i].refs}
            : i \in {x \in ids : Publishable(x)} }

\* the documents which k parent references, one after the other, lead to
RECURSIVE LevelOf(_, _)
LevelOf(ids, k) == IF k = 0 THEN ids ELSE LevelOf(ReferredBy(ids), k - 1)

\* the chain of parent references of the document is deeper than the
\* maximum depth, is exactly that deep
DeeperThanMax(doc_id) == LevelOf({doc_id}, MAX_DEPTH + 1) # {}
ExactlyMax(doc_id) ==
    LevelOf({doc_id}, MAX_DEPTH) # {} /\ ~DeeperThanMax(doc_id)

\* the thread has asked for a Term and the call has ended
Looked(t) == lastTerm[t].doc_id # 0 /\ lastTerm[t].done

\* C22: resolving a Term whose chain of parent references is deeper than
\* the maximum depth fails with the depth-exceeded error, whether the cache
\* is disabled or enabled and whatever it contains; resolving a Term whose
\* chain is exactly the maximum depth succeeds.
C22_DepthExceeded ==
    \A t \in Threads :
        Looked(t) =>
            /\ DeeperThanMax(lastTerm[t].doc_id) =>
                  lastTerm[t].err = DepthExceeded
            /\ ExactlyMax(lastTerm[t].doc_id) =>
                  lastTerm[t].err = "" /\ lastTerm[t].term # NoTerm

\* the parent references of a document with a publishable version which
\* name a document without one
NullParents(doc_id) ==
    { p \in ReferredBy({doc_id}) : ~Publishable(p) }

\* C23: a parent reference to a document without a publishable version
\* resolves to a null parent and the enclosing Term is still built without
\* error, while a lookup from outside for a document without a publishable
\* version ends in a failure the caller can tell as "no publishable
\* version", not in a null result.
C23_NoPublishableVersion ==
    \A t \in Threads :
        Looked(t) =>
            /\ ( /\ NullParents(lastTerm[t].doc_id) # {}
                 /\ termDocs[lastTerm[t].doc_id].name # ""
                 /\ ~DeeperThanMax(lastTerm[t].doc_id) ) =>
                  /\ lastTerm[t].err = ""
                  /\ lastTerm[t].term # NoTerm
                  /\ lastTerm[t].term.parents
                         \cap NullParents(lastTerm[t].doc_id) = {}
            /\ ~Publishable(lastTerm[t].doc_id) =>
                  lastTerm[t].err = NO_PUBLISHABLE_VERSIONS

\* the parent references lead from the document back to it
OnCycle(doc_id) ==
    \E k \in 1..Cardinality(TermIds) : doc_id \in LevelOf({doc_id}, k)

\* the parent references of the document lead into a cycle: they go on
\* for more steps than there are documents
Cyclic(doc_id) == LevelOf({doc_id}, Cardinality(TermIds)) # {}

\* the thread waits in set_cache for the lock it holds itself
SelfBlocked(t) ==
    /\ calls[t] # <<>>
    /\ calls[t][Len(calls[t])].pc = "set_cache"
    /\ termLock = t

\* C30: resolving a Term whose parent references form a cycle terminates
\* after a bounded number of recursive lookups and ends with the
\* depth-exceeded failure; it never returns a Term, never recurses without
\* bound, and leaves no Term of the cycle in the cache.
C30_CycleTerminates ==
    /\ \A t \in Threads :
          (lastTerm[t].doc_id # 0 /\ Cyclic(lastTerm[t].doc_id)) =>
              /\ lastTerm[t].lookups <= MAX_DEPTH + 2
              /\ ~SelfBlocked(t)
              /\ lastTerm[t].done =>
                    /\ lastTerm[t].err = DepthExceeded
                    /\ lastTerm[t].term = NoTerm
    /\ \A e \in terms : ~OnCycle(e.key)

----------------------------------------------------------------------------
(* Claims about the cache of Terms under concurrent calls (SpecCache,      *)
(* SpecCacheLive)                                                          *)

\* C25: a call of get_term made while the cache is enabled and older than
\* the maximum cache age clears the whole cache first and then completes:
\* it always returns, and afterwards no entry which was in the cache
\* before remains in it.
C25_ExpiredLookupCompletes ==
    /\ \A t \in Threads : lastTerm[t].expired ~> lastTerm[t].done
    /\ [](\A t \in Threads :
             (lastTerm[t].expired /\ lastTerm[t].done) =>
                 terms \cap lastTerm[t].was = {})

\* C28: under any interleaving of set_cache(on), set_cache(off) and get_term
\* calls the enable counter is never negative, set_cache returns whether
\* the cache was enabled before the call, the cache stays enabled until the
\* disables match the enables (a call for on adds one to the counter, a
\* call for off takes one from a positive counter, get_term leaves it
\* alone), all entries are discarded when the counter reaches zero, and no
\* entry is in the cache while the counter is zero.
C28_EnableCounter ==
    /\ [](/\ use_cache >= 0
          /\ lastSet.ret = (lastSet.was > 0)
          /\ lastSet.on => lastSet.counter = lastSet.was + 1
          /\ (~lastSet.on /\ lastSet.was > 0) =>
                lastSet.counter = lastSet.was - 1
          /\ (~lastSet.on /\ lastSet.was = 0) => lastSet.counter = 0
          /\ lastSet.counter = 0 => lastSet.cache = {}
          /\ use_cache = 0 => terms = {})
    /\ [][/\ use_cache' # use_cache =>
                /\ lastSet'.was = use_cache
                /\ lastSet'.counter = use_cache'
          /\ lastSet' # lastSet =>
                /\ lastSet'.was = use_cache
                /\ lastSet'.counter = use_cache'
                /\ lastSet'.cache = terms']_vars

\* the cache is switched on twice and holds a Term, is switched off once
\* and still holds it, and is switched off again and holds nothing
WitnessC28 ==
    /\ ~lastSet.on
    /\ lastSet.was = 1
    /\ lastSet.ret
    /\ use_cache = 0
    /\ terms = {}
    /\ \E t \in Threads :
          /\ Looked(t)
          /\ lastTerm[t].enabled
          /\ lastTerm[t].term # NoTerm
          /\ calls[t] = <<>>

----------------------------------------------------------------------------
(* Claims about the cache of Filters (SpecFilter) *)

\* a call of get_filter has returned a Filter
Served(t) == lastFilter[t].done /\ lastFilter[t].by # NoThread

\* C24: a Filter is served from the cache while it was last asked for (or
\* made) at most the shelf life before; the first call made more than the
\* shelf life after the last one evicts the entry and returns a Filter
\* fetched since
C24_ServedWhileUsed ==
    \A t \in FilterThreads :
        /\ Served(t) /\ ~lastFilter[t].missed =>
               lastFilter[t].asked - lastFilter[t].last <= SHELF_LIFE
        /\ lastFilter[t].missed /\ lastFilter[t].last # lastFilter[t].asked =>
               lastFilter[t].asked - lastFilter[t].last > SHELF_LIFE
        /\ Served(t) /\ lastFilter[t].missed =>
               lastFilter[t].fetched >= lastFilter[t].asked

\* a call found the entry stale, which had been asked for since it was
\* fetched, and returned a Filter it fetched itself
WitnessC24 ==
    \E t \in FilterThreads :
        /\ Served(t) /\ lastFilter[t].missed
        /\ lastFilter[t].last > 0
        /\ lastFilter[t].asked - lastFilter[t].last > SHELF_LIFE
        /\ lastFilter[t].by = t

\* C24 as stated: a Filter which get_filter finds in the cache and returns
\* was fetched at most the shelf life before, however often the entry was
\* asked for in between
C24_ServedWithinShelfLife ==
    \A t \in FilterThreads :
        Served(t) /\ ~lastFilter[t].missed =>
            lastFilter[t].at - lastFilter[t].fetched <= SHELF_LIFE

\* the cache holds f and a call has returned it
Returned(t, f) ==
    /\ Served(t)
    /\ lastFilter[t].doc_id = f.doc_id
    /\ lastFilter[t].fetched = f.fetched
    /\ lastFilter[t].by = f.by

\* the calls of t and u missed the same absence of the filter from the
\* cache: both ran their first block after the same eviction and before a
\* Filter was installed again
Racing(t, u) ==
    /\ Served(t) /\ Served(u)
    /\ lastFilter[t].missed /\ lastFilter[u].missed
    /\ lastFilter[t].doc_id = lastFilter[u].doc_id
    /\ lastFilter[t].since = lastFilter[u].since

\* nothing was evicted between the first block of the call and its return
Undisturbed(t) == lastFilter[t].gen = lastFilter[t].since

SameFilter(t, u) ==
    /\ lastFilter[t].fetched = lastFilter[u].fetched
    /\ lastFilter[t].by = lastFilter[u].by

\* the cache holds one entry at most for an id; no step puts another Filter
\* in the place of one the cache holds; a call which missed returns the
\* Filter the cache holds at its return
OneEntryKept ==
    /\ [](\A f, g \in filters : f.doc_id = g.doc_id => f = g)
    /\ [][\A f \in filters : \A g \in filters' :
              f.doc_id = g.doc_id =>
                  f.fetched = g.fetched /\ f.by = g.by]_vars
    /\ [][\A t \in FilterThreads :
              ~lastFilter[t].done /\ lastFilter'[t].done =>
                  \E g \in filters' :
                      /\ g.doc_id = lastFilter'[t].doc_id
                      /\ g.fetched = lastFilter'[t].fetched
                      /\ g.by = lastFilter'[t].by]_vars

\* C27: when threads miss on the same filter id at the same time and each
\* fetches the filter, the cache holds exactly one entry for the id, a later
\* writer never overwrites it, and the racing calls which end before the
\* entry installed first is evicted all return that entry
C27_FirstWriterKept ==
    /\ OneEntryKept
    /\ [](\A t, u \in FilterThreads :
              Racing(t, u) /\ Undisturbed(t) /\ Undisturbed(u) =>
                  SameFilter(t, u))

\* both threads missed, t1 installed its Filter and t2, which had fetched
\* the filter as well, returned the Filter of t1
WitnessC27 ==
    /\ Racing("t1", "t2")
    /\ Undisturbed("t1") /\ Undisturbed("t2")
    /\ lastFilter["t2"].by = "t1"
    /\ \E f \in filters : Returned("t1", f) /\ Returned("t2", f)

\* C27 as stated: every racing call returns the entry installed first
C27_RacersReturnFirst ==
    /\ OneEntryKept
    /\ [](\A t, u \in FilterThreads : Racing(t, u) => SameFilter(t, u))

----------------------------------------------------------------------------
(* Claims about the Docs being filtered (SpecStack) *)

\* the Docs of the calls of filter which thread t has running and which
\* have appended their Doc, the outermost first
RECURSIVE ActiveDocs(_)
ActiveDocs(frames) ==
    IF frames = <<>> THEN <<>>
    ELSE IF LastOf(frames).pushed
         THEN Append(ActiveDocs(FrontOf(frames)), LastOf(frames).self)
         ELSE ActiveDocs(FrontOf(frames))

\* thread t takes no step of a call of filter
Still(t) ==
    /\ filtering'[t] = filtering[t]
    /\ lastResolve'[t] = lastResolve[t]
    /\ lastEnd'[t] = lastEnd[t]

\* C26: a resolver callback made during a call of filter sees the Doc of
\* the innermost call of filter its thread has running; when a call ends,
\* by a return or by an exception raised after its Doc was appended, the
\* list of its thread is what it was before the call; the calls of other
\* threads never change the list of a thread
C26_CurrentDocument ==
    /\ [](\A t \in Threads :
              /\ lastResolve[t].seen = lastResolve[t].innermost
              /\ docs[StackOf(t)] = ActiveDocs(filtering[t])
              /\ lastEnd[t].after = lastEnd[t].before)
    /\ [][\A t \in Threads :
              Still(t) => docs'[StackOf(t)] = docs[StackOf(t)]]_vars

\* thread t1 is in a callback of a call of filter made within another, for
\* another Doc, after a call of its own ended by an exception, while thread
\* t2 filters a Doc as well
WitnessC26 ==
    /\ Len(filtering["t1"]) = MaxNest
    /\ LastOf(filtering["t1"]).pushed
    /\ filtering["t1"][1].self # LastOf(filtering["t1"]).self
    /\ lastResolve["t1"].seen = LastOf(filtering["t1"]).self
    /\ lastEnd["t1"].raised /\ lastEnd["t1"].pushed
    /\ lastEnd["t1"].before # <<>>
    /\ docs[StackOf("t2")] # <<>>
    /\ CurrentDoc(docs[StackOf("t2")]) # lastResolve["t1"].seen

----------------------------------------------------------------------------
(* Claims about modifier and modified (SpecAudit) *)

\* the MODIFY DOCUMENT row of the document with the greatest timestamp
MostRecent(rows) == CHOOSE r \in rows : \A o \in rows : r.dt >= o.dt

\* what modifier and modified are to report, given the modifications logged
Reported(info, rows) ==
    IF rows = {}
    THEN info.modifier = NoValue /\ info.modified = NoValue
    ELSE /\ info.modifier = PropValue(FALSE, MostRecent(rows).usr, 0)
         /\ info.modified = PropValue(FALSE, "", MostRecent(rows).dt)

\* C29: modifier and modified report the account and the date/time of the
\* most recent MODIFY DOCUMENT entry of the document in the audit trail, and
\* are None when the document has never been modified
C29_MostRecentModification ==
    /\ modInfo.has => Reported(modInfo, Modifications(doc.id, modInfo.was))
    /\ lastProp.name = "modifier" => lastProp.val = modInfo.modifier
    /\ lastProp.name = "modified" => lastProp.val = modInfo.modified

====
